---- MODULE Spec2Model ----
(***************************************************************************)
(* ILI9341 TFT LCD driver (Mortrack/ILI9341_STM_driver).                   *)
(*                                                                         *)
(* The model follows src/Src/ili9341_tft_lcd_driver.c statement by         *)
(* statement.  The program counter pc holds the line number of the next    *)
(* statement of that file to execute; Idle means that no driver function   *)
(* is active (the application runs between two calls of the public API).   *)
(* The HAL (GPIO, delay, DMA-SPI) is the driver's environment: a GPIO      *)
(* write sets a pin, a delay passes time, and HAL_SPI_Transmit_DMA answers *)
(* with any HAL_StatusTypeDef code and, when it answers HAL_OK, leaves a   *)
(* transfer in flight that the SPI peripheral sends later, byte by byte.   *)
(***************************************************************************)
EXTENDS Integers, Sequences, FiniteSets, TLC

(* ------------------------------------------------------------------ *)
(* Program constants                                                   *)
(* ------------------------------------------------------------------ *)

\* ILI9341 opcodes, ili9341_tft_lcd_driver.c lines 7-15.
ILI9341_SOFTWARE_RESET_COMMAND == 1             \* 0x01
ILI9341_POWER_CONTROL_1_COMMAND == 192          \* 0xC0
ILI9341_VCOM_CONTROL_1_COMMAND == 197           \* 0xC5
ILI9341_VCOM_CONTROL_2_COMMAND == 199           \* 0xC7
ILI9341_MEMORY_ACCESS_CONTROL_COMMAND == 54     \* 0x36
ILI9341_PIXEL_FORMAT_COMMAND == 58              \* 0x3A
ILI9341_DISPLAY_FUNCTION_CONTROL_COMMAND == 182 \* 0xB6
ILI9341_SLEEP_OUT_COMMAND == 17                 \* 0x11
ILI9341_DISPLAY_ON_COMMAND == 41                \* 0x29

\* Transfer sizes, ili9341_tft_lcd_driver.c lines 16-19.
ILI9341_COMMAND_SIZE == 1
ILI9341_SINGLE_DATA_SIZE == 1
ILI9341_VCOM_CONTROL_1_DATA_SIZE == 2
ILI9341_DISPLAY_FUNCTION_CONTROL_DATA_SIZE == 2

\* Payload codes, ili9341_tft_lcd_driver.c lines 43, 62, 81, 99.
ILI9341_GVDD_4V6 == 35          \* 0x23
ILI9341_VCOMH_4V25 == 62        \* 0x3E
ILI9341_VCOML_minus_1V5 == 40   \* 0x28
ILI9341_VMF_minus_58 == 134     \* 0x86

\* ILI9341_Status, ili9341_tft_lcd_driver.h lines 52-56.
ILI9341_EC_OK == 0
ILI9341_EC_STOP == 1
ILI9341_EC_NR == 2
ILI9341_EC_NA == 3
ILI9341_EC_ERR == 4

\* ILI9341_BPP_t, ili9341_tft_lcd_driver.h lines 66-67.
ILI9341_BPP_16 == 0
ILI9341_BPP_18 == 1

\* HAL_StatusTypeDef of the STM32 HAL (stm32f1xx_hal_def.h), the codes that
\* the switch of HAL_ret_handler names.
HAL_OK == 0
HAL_ERROR == 1
HAL_BUSY == 2
HAL_TIMEOUT == 3

HAL_StatusTypeDef == {HAL_OK, HAL_ERROR, HAL_BUSY, HAL_TIMEOUT}

\* GPIO_PinState of the STM32 HAL: only the two names matter to the driver.
GPIO_PIN_RESET == "GPIO_PIN_RESET"
GPIO_PIN_SET == "GPIO_PIN_SET"

GPIO_PinState == {GPIO_PIN_RESET, GPIO_PIN_SET}

(* ------------------------------------------------------------------ *)
(* Bounds of the model                                                 *)
(* ------------------------------------------------------------------ *)

\* Number of times the application calls init_ili9341_module.
MaxInitCalls == 2
\* set_ili9341_bpp_type is called with the mode codes 0..MaxBppCode.
MaxBppCode == 2
\* HAL_ret_handler on its own is applied to the codes 0..MaxHalCode.
MaxHalCode == 63

(* ------------------------------------------------------------------ *)
(* State                                                               *)
(* ------------------------------------------------------------------ *)

VARIABLES
    pc,                     \* line of the next statement, or Idle
    pins,                   \* level of the CS, RESET and DC lines
    ret,                    \* local ret of init_ili9341_module
    frame,                  \* locals of the step function that is running
    p_hspi,                 \* static SPI handle pointer
    p_ili9341_peripherals,  \* static peripherals pointer
    ili9341_bpp_type,       \* static Pixel Format Mode
    p_ili9341_fill_screen,  \* static fill dispatch
    result,                 \* what the last public call returned
    calls,                  \* number of init_ili9341_module calls so far
    trace,                  \* what the current init call did so far, in order
    dma,                    \* the transfer the DMA-SPI has in flight
    wire,                   \* the last byte the SPI peripheral sent
    unit,                   \* HAL_ret_handler applied on its own: argument, value
    atCall                  \* the mode and the fill dispatch when the last init call began

vars == <<pc, pins, ret, frame, p_hspi, p_ili9341_peripherals, ili9341_bpp_type,
          p_ili9341_fill_screen, result, calls, trace, dma, wire, unit, atCall>>

Idle == 0

\* The function whose body holds line l of ili9341_tft_lcd_driver.c.
FnAt(l) ==
    IF l >= 359 /\ l <= 456 THEN "init_ili9341_module"
    ELSE IF l >= 458 /\ l <= 471 THEN "ili9341_hardware_reset"
    ELSE IF l >= 473 /\ l <= 487 THEN "ili9341_software_reset"
    ELSE IF l >= 489 /\ l <= 511 THEN "ili9341_configure_power_control_1"
    ELSE IF l >= 513 /\ l <= 536 THEN "ili9341_configure_vcom_control_1"
    ELSE IF l >= 538 /\ l <= 560 THEN "ili9341_configure_vcom_control_2"
    ELSE IF l >= 562 /\ l <= 593 THEN "ili9341_configure_memory_access_control"
    ELSE IF l >= 596 /\ l <= 626 THEN "ili9341_configure_pixel_format"
    ELSE IF l >= 628 /\ l <= 655 THEN "ili9341_configure_display_function_control"
    ELSE IF l >= 658 /\ l <= 672 THEN "ili9341_exit_sleep_mode"
    ELSE IF l >= 675 /\ l <= 688 THEN "ili9341_turn_display_on"
    ELSE "application"

NoFrame == [x \in {} |-> 0]

\* What a local holds before its first assignment: no status code, and never
\* read before the assignment.
Indeterminate == -1

\* The locals f with local x set to v.
Assign(f, x, v) == [y \in DOMAIN f \cup {x} |-> IF y = x THEN v ELSE f[y]]

NoTransfer == [fn |-> "none", buf |-> "none", size |-> 0, sent |-> 0,
               bytes |-> <<>>, dc |-> GPIO_PIN_RESET]

NoByte == [sent |-> FALSE]

NoResult == [fn |-> "none"]

NoUnit == [fn |-> "none"]

\* Before the first init call: the zero-initialised statics.
NoCall == [bpp |-> 0, fill |-> "NULL"]

(* ------------------------------------------------------------------ *)
(* Status translator                                                   *)
(* ------------------------------------------------------------------ *)

\* Mutant: the HAL_TIMEOUT case is missing from the switch.
HAL_ret_handler_no_timeout_case(HAL_status) ==
    CASE HAL_status = HAL_BUSY -> ILI9341_EC_NR
      [] HAL_status = HAL_ERROR -> ILI9341_EC_ERR
      [] OTHER -> HAL_status

\* Mutant: a code the switch does not name is reported as a failure.
HAL_ret_handler_default_err(HAL_status) ==
    CASE HAL_status = HAL_BUSY \/ HAL_status = HAL_TIMEOUT -> ILI9341_EC_NR
      [] HAL_status = HAL_ERROR -> ILI9341_EC_ERR
      [] HAL_status = HAL_OK -> ILI9341_EC_OK
      [] OTHER -> ILI9341_EC_ERR

\* Mutant: the HAL code is cast to ILI9341_Status without translation.
HAL_ret_handler_cast_only(HAL_status) == HAL_status

\* HAL_ret_handler, lines 754-766.
HAL_ret_handler(HAL_status) ==
    CASE HAL_status = HAL_BUSY \/ HAL_status = HAL_TIMEOUT -> ILI9341_EC_NR
      [] HAL_status = HAL_ERROR -> ILI9341_EC_ERR
      [] OTHER -> HAL_status

(* ------------------------------------------------------------------ *)
(* Packed register payloads                                            *)
(* ------------------------------------------------------------------ *)

\* ILI9341_MADCTL_MCU_WRITE_READ_DIRECTION_def_t read as a byte (line 588):
\* bit-fields are allocated from bit 0 upwards (little-endian ARM ABI).
WrRdDirByte(mv, mx, my) == (mv % 2) + 2 * (mx % 2) + 4 * (my % 2)

\* Mutant: the bit-fields are allocated from bit 7 downwards.
MADCTLByte_msb_first(d0_and_d1, mh, bgr, ml, wr_rd_dir) ==
    64 * (d0_and_d1 % 4) + 32 * (mh % 2) + 16 * (bgr % 2) + 8 * (ml % 2)
        + (wr_rd_dir % 8)

\* ILI9341_MADCTL_def_t read as a byte (lines 107-114, 580-589).
MADCTLByte(d0_and_d1, mh, bgr, ml, wr_rd_dir) ==
    (d0_and_d1 % 4) + 4 * (mh % 2) + 8 * (bgr % 2) + 16 * (ml % 2)
        + 32 * (wr_rd_dir % 8)

\* Mutant: dpi is stored next to dbi, without the d3 bit between them.
PixelFormatByte_no_d3_gap(dbi, d3, dpi, d7) ==
    (dbi % 8) + 8 * (dpi % 8) + 64 * (d3 % 2) + 128 * (d7 % 2)

\* ILI9341_PIXEL_FORMAT_def_t read as a byte (lines 135-141, 619-622).
PixelFormatByte(dbi, d3, dpi, d7) ==
    (dbi % 8) + 8 * (d3 % 2) + 16 * (dpi % 8) + 128 * (d7 % 2)

(* ------------------------------------------------------------------ *)
(* HAL calls and pin helpers                                           *)
(* ------------------------------------------------------------------ *)

statics == <<p_hspi, p_ili9341_peripherals, ili9341_bpp_type, p_ili9341_fill_screen>>

\* HAL_GPIO_WritePin on one of the three lines of p_ili9341_peripherals.
HAL_GPIO_WritePin(pin, PinState) ==
    /\ pins' = [pins EXCEPT ![pin] = PinState]
    /\ trace' = Append(trace, [ev |-> "gpio", fn |-> FnAt(pc), pin |-> pin,
                               val |-> PinState, cs |-> pins.CS, dc |-> pins.DC])

\* A statement that only writes a pin: at is its line, next the line after it.
WritePinStmt(at, pin, PinState, next) ==
    /\ pc = at
    /\ HAL_GPIO_WritePin(pin, PinState)
    /\ pc' = next
    /\ UNCHANGED <<ret, frame, statics, result, calls, dma, wire, unit, atCall>>

\* Mutant: disable_cs_pin drives the line low, like enable_cs_pin.
disable_cs_pin_drives_low(at, next) == WritePinStmt(at, "CS", GPIO_PIN_RESET, next)

\* Mutant: the step does not put the data/command line back to command.
set_dc_pin_to_command_mode_forgotten(at, next) ==
    /\ pc = at
    /\ pc' = next
    /\ UNCHANGED <<pins, ret, frame, statics, result, calls, trace, dma, wire, unit, atCall>>

\* Mutant: disable_cs_pin writes nothing, chip-select stays as it was.
disable_cs_pin_writes_nothing(at, next) ==
    /\ pc = at
    /\ pc' = next
    /\ UNCHANGED <<pins, ret, frame, statics, result, calls, trace, dma, wire, unit, atCall>>

\* Mutant: set_dc_pin_to_command_mode writes the reset line instead of the
\* data/command line.
set_dc_pin_to_command_mode_writes_reset(at, next) ==
    WritePinStmt(at, "RESET", GPIO_PIN_RESET, next)

\* enable_cs_pin, lines 728-731: chip-select is active low.
enable_cs_pin(at, next) == WritePinStmt(at, "CS", GPIO_PIN_RESET, next)

\* disable_cs_pin, lines 733-736.
disable_cs_pin(at, next) == WritePinStmt(at, "CS", GPIO_PIN_SET, next)

\* set_dc_pin_to_data_mode, lines 738-741.
set_dc_pin_to_data_mode(at, next) == WritePinStmt(at, "DC", GPIO_PIN_SET, next)

\* set_dc_pin_to_command_mode, lines 743-746.
set_dc_pin_to_command_mode(at, next) == WritePinStmt(at, "DC", GPIO_PIN_RESET, next)

\* HAL_Delay(Delay): blocks for Delay time units.
HAL_Delay(at, Delay, next) ==
    /\ pc = at
    /\ trace' = Append(trace, [ev |-> "delay", fn |-> FnAt(pc), ms |-> Delay])
    /\ pc' = next
    /\ UNCHANGED <<pins, ret, frame, statics, result, calls, dma, wire, unit, atCall>>

\* SPI_FLAG_TXE as the driver reads it at line 750: nothing is left to send.
TXE == dma.sent = dma.size

\* Mutant: the request is made without the poll of line 750.
ili9341_dma_spi_tx_no_poll(at, buffer, size, next) ==
    /\ pc = at
    /\ \E HAL_status \in HAL_StatusTypeDef :
          /\ frame' = Assign(frame, "ret", HAL_ret_handler(HAL_status))
          /\ dma' = IF HAL_status = HAL_OK
                       THEN [fn |-> FnAt(pc), buf |-> buffer, size |-> size,
                             sent |-> 0, bytes |-> SubSeq(frame[buffer], 1, size),
                             dc |-> pins.DC]
                       ELSE dma
          /\ trace' = Append(trace, [ev |-> "tx", fn |-> FnAt(pc), buf |-> buffer,
                                     bytes |-> SubSeq(frame[buffer], 1, size),
                                     size |-> size, hal |-> HAL_status,
                                     status |-> HAL_ret_handler(HAL_status),
                                     cs |-> pins.CS, dc |-> pins.DC])
    /\ pc' = next
    /\ UNCHANGED <<pins, ret, statics, result, calls, wire, unit, atCall>>

\* Mutant: the poll of line 750 has the test inverted, and waits while the
\* transport is idle.
ili9341_dma_spi_tx_inverted_poll(at, buffer, size, next) ==
    /\ pc = at
    /\ ~TXE
    /\ \E HAL_status \in HAL_StatusTypeDef :
          /\ frame' = Assign(frame, "ret", HAL_ret_handler(HAL_status))
          /\ dma' = IF HAL_status = HAL_OK
                       THEN [fn |-> FnAt(pc), buf |-> buffer, size |-> size,
                             sent |-> 0, bytes |-> SubSeq(frame[buffer], 1, size),
                             dc |-> pins.DC]
                       ELSE dma
          /\ trace' = Append(trace, [ev |-> "tx", fn |-> FnAt(pc), buf |-> buffer,
                                     bytes |-> SubSeq(frame[buffer], 1, size),
                                     size |-> size, hal |-> HAL_status,
                                     status |-> HAL_ret_handler(HAL_status),
                                     cs |-> pins.CS, dc |-> pins.DC])
    /\ pc' = next
    /\ UNCHANGED <<pins, ret, statics, result, calls, wire, unit, atCall>>

\* ret = ili9341_dma_spi_tx(buffer, size), lines 748-752: wait for TXE, hand
\* the buffer to HAL_SPI_Transmit_DMA and translate its answer.  The HAL
\* starts a transfer only when it answers HAL_OK.
ili9341_dma_spi_tx(at, buffer, size, next) ==
    /\ pc = at
    /\ TXE
    /\ \E HAL_status \in HAL_StatusTypeDef :
          /\ frame' = Assign(frame, "ret", HAL_ret_handler(HAL_status))
          /\ dma' = IF HAL_status = HAL_OK
                       THEN [fn |-> FnAt(pc), buf |-> buffer, size |-> size,
                             sent |-> 0, bytes |-> SubSeq(frame[buffer], 1, size),
                             dc |-> pins.DC]
                       ELSE dma
          /\ trace' = Append(trace, [ev |-> "tx", fn |-> FnAt(pc), buf |-> buffer,
                                     bytes |-> SubSeq(frame[buffer], 1, size),
                                     size |-> size, hal |-> HAL_status,
                                     status |-> HAL_ret_handler(HAL_status),
                                     cs |-> pins.CS, dc |-> pins.DC])
    /\ pc' = next
    /\ UNCHANGED <<pins, ret, statics, result, calls, wire, unit, atCall>>

\* ret = f(...) in init_ili9341_module: control enters the step function f,
\* whose locals with an initialiser are locals.
Call(at, locals, entry) ==
    /\ pc = at
    /\ frame' = locals
    /\ pc' = entry
    /\ UNCHANGED <<pins, ret, statics, result, calls, trace, dma, wire, unit, atCall>>

\* Mutant: the step function ends with return ILI9341_EC_OK.
Return_reports_ok(at, to) ==
    /\ pc = at
    /\ pc' = to
    /\ ret' = ILI9341_EC_OK
    /\ frame' = NoFrame
    /\ trace' = Append(trace, [ev |-> "return", fn |-> FnAt(pc),
                               status |-> ILI9341_EC_OK, cs |-> pins.CS, dc |-> pins.DC])
    /\ UNCHANGED <<pins, statics, result, calls, dma, wire, unit, atCall>>

\* return ret; of a step function: its locals die, init's ret gets the value.
Return(at, to) ==
    /\ pc = at
    /\ pc' = to
    /\ ret' = frame.ret
    /\ frame' = NoFrame
    /\ trace' = Append(trace, [ev |-> "return", fn |-> FnAt(pc),
                               status |-> frame.ret, cs |-> pins.CS, dc |-> pins.DC])
    /\ UNCHANGED <<pins, statics, result, calls, dma, wire, unit, atCall>>

\* Mutant: the test is ret == ILI9341_EC_ERR, so that a busy or timed-out
\* command request goes on to the payload.
IfRetNotOk_only_err(at, then, else) ==
    /\ pc = at
    /\ pc' = IF frame.ret = ILI9341_EC_ERR THEN then ELSE else
    /\ UNCHANGED <<pins, ret, frame, statics, result, calls, trace, dma, wire, unit, atCall>>

\* Mutant: the failure branch returns without disable_cs_pin().
IfRetNotOk_keeps_cs(at, then, else) ==
    /\ pc = at
    /\ pc' = IF frame.ret # ILI9341_EC_OK THEN then + 1 ELSE else
    /\ UNCHANGED <<pins, ret, frame, statics, result, calls, trace, dma, wire, unit, atCall>>

\* if (ret != ILI9341_EC_OK) { ... } of a step function.
IfRetNotOk(at, then, else) ==
    /\ pc = at
    /\ pc' = IF frame.ret # ILI9341_EC_OK THEN then ELSE else
    /\ UNCHANGED <<pins, ret, frame, statics, result, calls, trace, dma, wire, unit, atCall>>

\* The number of bytes of the local buf of function fn, as declared: the
\* scalars (lines 478, 494, 543) and the packed structs (lines 107-114,
\* 135-141) are one byte, the arrays have the size of lines 531 and 646.
DeclaredSize(fn, buf) ==
    CASE buf = "ili9341_data_value" /\ fn = "ili9341_configure_vcom_control_1" ->
             ILI9341_VCOM_CONTROL_1_DATA_SIZE
      [] buf = "ili9341_data_value" /\ fn = "ili9341_configure_display_function_control" ->
             ILI9341_DISPLAY_FUNCTION_CONTROL_DATA_SIZE
      [] OTHER -> 1

\* The stores of the bytes v at the indices first, first + 1, ... of the
\* local buf of the running function, as events of the trace.
Stores(buf, first, v) ==
    [k \in 1..Len(v) |-> [ev |-> "store", fn |-> FnAt(pc), buf |-> buf,
                          index |-> first + k - 1, value |-> v[k],
                          declared |-> DeclaredSize(FnAt(pc), buf)]]

\* The payload buffer that the locals f of a step function hold.
PayloadBuffer(f) ==
    CHOOSE b \in {"ili9341_command_or_data_value", "ili9341_data_value"} : b \in DOMAIN f

\* A statement that only writes the payload buffer of the running step
\* function: locals are the locals after it.
LocalStmt(at, locals, next) ==
    /\ pc = at
    /\ frame' = locals
    /\ trace' = trace \o Stores(PayloadBuffer(locals), 0, locals[PayloadBuffer(locals)])
    /\ pc' = next
    /\ UNCHANGED <<pins, ret, statics, result, calls, dma, wire, unit, atCall>>

(* ------------------------------------------------------------------ *)
(* The steps of the initialization sequence                            *)
(* ------------------------------------------------------------------ *)

\* Mutant: the wait after the release of the reset line is 1 time unit.
ili9341_hardware_reset_short_wait ==
    \/ WritePinStmt(461, "RESET", GPIO_PIN_SET, 462)
    \/ HAL_Delay(462, 1, 465)
    \/ WritePinStmt(465, "RESET", GPIO_PIN_RESET, 466)
    \/ HAL_Delay(466, 1, 469)
    \/ WritePinStmt(469, "RESET", GPIO_PIN_SET, 470)
    \/ HAL_Delay(470, 1, 471)
    \/ /\ pc = 471
       /\ trace' = Append(trace, [ev |-> "return_void", fn |-> FnAt(pc),
                                  cs |-> pins.CS, dc |-> pins.DC])
       /\ pc' = 375
       /\ UNCHANGED <<pins, ret, frame, statics, result, calls, dma, wire, unit, atCall>>

\* ili9341_hardware_reset, lines 458-471.
ili9341_hardware_reset ==
    \/ WritePinStmt(461, "RESET", GPIO_PIN_SET, 462)
    \/ HAL_Delay(462, 1, 465)
    \/ WritePinStmt(465, "RESET", GPIO_PIN_RESET, 466)
    \/ HAL_Delay(466, 1, 469)
    \/ WritePinStmt(469, "RESET", GPIO_PIN_SET, 470)
    \/ HAL_Delay(470, 5, 471)
    \/ /\ pc = 471
       /\ trace' = Append(trace, [ev |-> "return_void", fn |-> FnAt(pc),
                                  cs |-> pins.CS, dc |-> pins.DC])
       /\ pc' = 375
       /\ UNCHANGED <<pins, ret, frame, statics, result, calls, dma, wire, unit, atCall>>

\* Mutant: a failed request returns at once, as in the steps with a payload.
ili9341_software_reset_returns_on_failure ==
    \/ set_dc_pin_to_command_mode(480, 481)
    \/ enable_cs_pin(481, 482)
    \/ ili9341_dma_spi_tx(482, "ili9341_command", ILI9341_COMMAND_SIZE, 483)
    \/ /\ pc = 483
       /\ HAL_GPIO_WritePin("CS", GPIO_PIN_SET)
       /\ pc' = IF frame.ret # ILI9341_EC_OK THEN 486 ELSE 484
       /\ UNCHANGED <<ret, frame, statics, result, calls, dma, wire, unit, atCall>>
    \/ HAL_Delay(484, 5, 486)
    \/ Return(486, 376)

\* ili9341_software_reset, lines 473-487.
ili9341_software_reset ==
    \/ set_dc_pin_to_command_mode(480, 481)
    \/ enable_cs_pin(481, 482)
    \/ ili9341_dma_spi_tx(482, "ili9341_command", ILI9341_COMMAND_SIZE, 483)
    \/ disable_cs_pin(483, 484)
    \/ HAL_Delay(484, 5, 486)
    \/ Return(486, 376)

\* ili9341_configure_power_control_1, lines 489-511.
ili9341_configure_power_control_1 ==
    \/ set_dc_pin_to_command_mode(496, 497)
    \/ enable_cs_pin(497, 498)
    \/ ili9341_dma_spi_tx(498, "ili9341_command_or_data_value", ILI9341_COMMAND_SIZE, 499)
    \/ IfRetNotOk(499, 501, 505)
    \/ disable_cs_pin(501, 502)
    \/ Return(502, 383)
    \/ set_dc_pin_to_data_mode(505, 506)
    \/ LocalStmt(506, Assign(frame, "ili9341_command_or_data_value",
                             <<frame.gvdd_level % 256>>), 507)
    \/ ili9341_dma_spi_tx(507, "ili9341_command_or_data_value", ILI9341_SINGLE_DATA_SIZE, 508)
    \/ disable_cs_pin(508, 510)
    \/ Return(510, 383)

\* Mutant: the array is initialised with VCOML first and VCOMH second.
ili9341_configure_vcom_control_1_swapped ==
    \/ set_dc_pin_to_command_mode(520, 521)
    \/ enable_cs_pin(521, 522)
    \/ ili9341_dma_spi_tx(522, "ili9341_command", ILI9341_COMMAND_SIZE, 523)
    \/ IfRetNotOk(523, 525, 529)
    \/ disable_cs_pin(525, 526)
    \/ Return(526, 393)
    \/ set_dc_pin_to_data_mode(529, 531)
    \/ LocalStmt(531, Assign(frame, "ili9341_data_value",
                             <<frame.vcoml_voltage % 256, frame.vcomh_voltage % 256>>), 532)
    \/ ili9341_dma_spi_tx(532, "ili9341_data_value", ILI9341_VCOM_CONTROL_1_DATA_SIZE, 533)
    \/ disable_cs_pin(533, 535)
    \/ Return(535, 393)

\* ili9341_configure_vcom_control_1, lines 513-536.
ili9341_configure_vcom_control_1 ==
    \/ set_dc_pin_to_command_mode(520, 521)
    \/ enable_cs_pin(521, 522)
    \/ ili9341_dma_spi_tx(522, "ili9341_command", ILI9341_COMMAND_SIZE, 523)
    \/ IfRetNotOk(523, 525, 529)
    \/ disable_cs_pin(525, 526)
    \/ Return(526, 393)
    \/ set_dc_pin_to_data_mode(529, 531)
    \/ LocalStmt(531, Assign(frame, "ili9341_data_value",
                             <<frame.vcomh_voltage % 256, frame.vcoml_voltage % 256>>), 532)
    \/ ili9341_dma_spi_tx(532, "ili9341_data_value", ILI9341_VCOM_CONTROL_1_DATA_SIZE, 533)
    \/ disable_cs_pin(533, 535)
    \/ Return(535, 393)

\* ili9341_configure_vcom_control_2, lines 538-560.
ili9341_configure_vcom_control_2 ==
    \/ set_dc_pin_to_command_mode(545, 546)
    \/ enable_cs_pin(546, 547)
    \/ ili9341_dma_spi_tx(547, "ili9341_command_or_data_value", ILI9341_COMMAND_SIZE, 548)
    \/ IfRetNotOk(548, 550, 554)
    \/ disable_cs_pin(550, 551)
    \/ Return(551, 400)
    \/ set_dc_pin_to_data_mode(554, 555)
    \/ LocalStmt(555, Assign(frame, "ili9341_command_or_data_value",
                             <<frame.vmf_offset % 256>>), 556)
    \/ ili9341_dma_spi_tx(556, "ili9341_command_or_data_value", ILI9341_SINGLE_DATA_SIZE, 557)
    \/ disable_cs_pin(557, 559)
    \/ Return(559, 400)

\* ili9341_configure_memory_access_control, lines 562-593.  Lines 580-588
\* build the payload in locals: mh = 0, bgr = 1, ml = 0, and wr_rd_dir read
\* as a byte from mv = 0, mx = 1, my = 0.
ili9341_configure_memory_access_control ==
    \/ set_dc_pin_to_command_mode(569, 570)
    \/ enable_cs_pin(570, 571)
    \/ ili9341_dma_spi_tx(571, "ili9341_command", ILI9341_COMMAND_SIZE, 572)
    \/ IfRetNotOk(572, 574, 578)
    \/ disable_cs_pin(574, 575)
    \/ Return(575, 407)
    \/ set_dc_pin_to_data_mode(578, 580)
    \/ LocalStmt(580, Assign(frame, "ili9341_data_value",
                             <<MADCTLByte(0, 0, 1, 0, WrRdDirByte(0, 1, 0))>>), 589)
    \/ ili9341_dma_spi_tx(589, "ili9341_data_value", ILI9341_SINGLE_DATA_SIZE, 590)
    \/ disable_cs_pin(590, 592)
    \/ Return(592, 407)

\* Mutant: the step commits the 18-bit mode and routine.
ili9341_configure_pixel_format_commits_18bpp ==
    \/ /\ pc = 604
       /\ p_ili9341_fill_screen' = "ili9341_fill_screen_18bpp"
       /\ ili9341_bpp_type' = ILI9341_BPP_18
       /\ pc' = 608
       /\ UNCHANGED <<pins, ret, frame, p_hspi, p_ili9341_peripherals, result,
                      calls, trace, dma, wire, unit, atCall>>
    \/ set_dc_pin_to_command_mode(608, 609)
    \/ enable_cs_pin(609, 610)
    \/ ili9341_dma_spi_tx(610, "ili9341_command", ILI9341_COMMAND_SIZE, 611)
    \/ IfRetNotOk(611, 613, 617)
    \/ disable_cs_pin(613, 614)
    \/ Return(614, 414)
    \/ set_dc_pin_to_data_mode(617, 619)
    \/ LocalStmt(619, Assign(frame, "ili9341_data_value",
                             <<PixelFormatByte(5, 0, 5, 0)>>), 622)
    \/ ili9341_dma_spi_tx(622, "ili9341_data_value", ILI9341_SINGLE_DATA_SIZE, 623)
    \/ disable_cs_pin(623, 625)
    \/ Return(625, 414)

\* Mutant: the fill dispatch and the mode are set only once the command
\* request was accepted, on the way to the payload.
ili9341_configure_pixel_format_sets_mode_late ==
    \/ /\ pc = 604
       /\ pc' = 608
       /\ UNCHANGED <<pins, ret, frame, statics, result, calls, trace, dma, wire,
                      unit, atCall>>
    \/ set_dc_pin_to_command_mode(608, 609)
    \/ enable_cs_pin(609, 610)
    \/ ili9341_dma_spi_tx(610, "ili9341_command", ILI9341_COMMAND_SIZE, 611)
    \/ IfRetNotOk(611, 613, 617)
    \/ disable_cs_pin(613, 614)
    \/ Return(614, 414)
    \/ set_dc_pin_to_data_mode(617, 605)
    \/ /\ pc = 605
       /\ p_ili9341_fill_screen' = "ili9341_fill_screen_16bpp"
       /\ ili9341_bpp_type' = ILI9341_BPP_16
       /\ pc' = 619
       /\ UNCHANGED <<pins, ret, frame, p_hspi, p_ili9341_peripherals, result,
                      calls, trace, dma, wire, unit, atCall>>
    \/ LocalStmt(619, Assign(frame, "ili9341_data_value",
                             <<PixelFormatByte(5, 0, 5, 0)>>), 622)
    \/ ili9341_dma_spi_tx(622, "ili9341_data_value", ILI9341_SINGLE_DATA_SIZE, 623)
    \/ disable_cs_pin(623, 625)
    \/ Return(625, 414)

\* ili9341_configure_pixel_format, lines 596-626.  Lines 604-605 set the
\* fill dispatch and the mode; lines 619-621 build the payload in locals.
ili9341_configure_pixel_format ==
    \/ /\ pc = 604
       /\ p_ili9341_fill_screen' = "ili9341_fill_screen_16bpp"
       /\ ili9341_bpp_type' = ILI9341_BPP_16
       /\ pc' = 608
       /\ UNCHANGED <<pins, ret, frame, p_hspi, p_ili9341_peripherals, result,
                      calls, trace, dma, wire, unit, atCall>>
    \/ set_dc_pin_to_command_mode(608, 609)
    \/ enable_cs_pin(609, 610)
    \/ ili9341_dma_spi_tx(610, "ili9341_command", ILI9341_COMMAND_SIZE, 611)
    \/ IfRetNotOk(611, 613, 617)
    \/ disable_cs_pin(613, 614)
    \/ Return(614, 414)
    \/ set_dc_pin_to_data_mode(617, 619)
    \/ LocalStmt(619, Assign(frame, "ili9341_data_value",
                             <<PixelFormatByte(5, 0, 5, 0)>>), 622)
    \/ ili9341_dma_spi_tx(622, "ili9341_data_value", ILI9341_SINGLE_DATA_SIZE, 623)
    \/ disable_cs_pin(623, 625)
    \/ Return(625, 414)

\* ili9341_data_value[index] = value at lines 648-650, for the array that
\* line 646 declares with ILI9341_DISPLAY_FUNCTION_CONTROL_DATA_SIZE elements.
\* The locals hold the elements assigned so far.  A store at an index past
\* the array is undefined: it lands in padding, or in a neighbouring local.
StoreDataValue(at, index, value, next) ==
    /\ pc = at
    /\ IF index < ILI9341_DISPLAY_FUNCTION_CONTROL_DATA_SIZE
          THEN frame' = Assign(frame, "ili9341_data_value",
                               IF "ili9341_data_value" \in DOMAIN frame
                                  THEN Append(frame.ili9341_data_value, value)
                                  ELSE <<value>>)
          ELSE \E victim \in {"padding", "ili9341_command", "ret"} :
                  frame' = CASE victim = "padding" -> frame
                             [] victim = "ili9341_command" ->
                                    Assign(frame, "ili9341_command", <<value>>)
                             [] victim = "ret" -> Assign(frame, "ret", value)
    /\ trace' = trace \o Stores("ili9341_data_value", index, <<value>>)
    /\ pc' = next
    /\ UNCHANGED <<pins, ret, statics, result, calls, dma, wire, unit, atCall>>

\* ili9341_configure_display_function_control, lines 628-655.
ili9341_configure_display_function_control ==
    \/ set_dc_pin_to_command_mode(635, 636)
    \/ enable_cs_pin(636, 637)
    \/ ili9341_dma_spi_tx(637, "ili9341_command", ILI9341_COMMAND_SIZE, 638)
    \/ IfRetNotOk(638, 640, 644)
    \/ disable_cs_pin(640, 641)
    \/ Return(641, 427)
    \/ set_dc_pin_to_data_mode(644, 648)
    \/ StoreDataValue(648, 0, 8, 649)
    \/ StoreDataValue(649, 1, 130, 650)
    \/ StoreDataValue(650, 2, 39, 651)
    \/ ili9341_dma_spi_tx(651, "ili9341_data_value",
                          ILI9341_DISPLAY_FUNCTION_CONTROL_DATA_SIZE, 652)
    \/ disable_cs_pin(652, 654)
    \/ Return(654, 427)

\* Mutant: the step returns right after the frame, without the wait.
ili9341_exit_sleep_mode_no_wait ==
    \/ set_dc_pin_to_command_mode(665, 666)
    \/ enable_cs_pin(666, 667)
    \/ ili9341_dma_spi_tx(667, "ili9341_command", ILI9341_COMMAND_SIZE, 668)
    \/ disable_cs_pin(668, 671)
    \/ Return(671, 443)

\* ili9341_exit_sleep_mode, lines 658-672.
ili9341_exit_sleep_mode ==
    \/ set_dc_pin_to_command_mode(665, 666)
    \/ enable_cs_pin(666, 667)
    \/ ili9341_dma_spi_tx(667, "ili9341_command", ILI9341_COMMAND_SIZE, 668)
    \/ disable_cs_pin(668, 669)
    \/ HAL_Delay(669, 5, 671)
    \/ Return(671, 443)

\* Mutant: the step waits after the frame, like the Sleep-Out step.
ili9341_turn_display_on_waits ==
    \/ set_dc_pin_to_command_mode(682, 683)
    \/ enable_cs_pin(683, 684)
    \/ ili9341_dma_spi_tx(684, "ili9341_command", ILI9341_COMMAND_SIZE, 685)
    \/ disable_cs_pin(685, 686)
    \/ HAL_Delay(686, 5, 687)
    \/ Return(687, 450)

\* ili9341_turn_display_on, lines 675-688.
ili9341_turn_display_on ==
    \/ set_dc_pin_to_command_mode(682, 683)
    \/ enable_cs_pin(683, 684)
    \/ ili9341_dma_spi_tx(684, "ili9341_command", ILI9341_COMMAND_SIZE, 685)
    \/ disable_cs_pin(685, 687)
    \/ Return(687, 450)

(* ------------------------------------------------------------------ *)
(* The initialization sequencer                                        *)
(* ------------------------------------------------------------------ *)

\* Mutant: the sequencer ignores the verdict of a step and goes on.
InitIfRetNotOk_goes_on(at, then, else) ==
    /\ pc = at
    /\ pc' = else
    /\ UNCHANGED <<pins, ret, frame, statics, result, calls, trace, dma, wire, unit, atCall>>

\* if (ret != ILI9341_EC_OK) { return ret; } of init_ili9341_module.
InitIfRetNotOk(at, then, else) ==
    /\ pc = at
    /\ pc' = IF ret # ILI9341_EC_OK THEN then ELSE else
    /\ UNCHANGED <<pins, ret, frame, statics, result, calls, trace, dma, wire, unit, atCall>>

\* Mutant: any failure is reported as ILI9341_EC_ERR (what the earlier
\* revision did, src/unnamed/part_001 lines 123-126).
InitReturn_always_err(at, status) ==
    /\ pc = at
    /\ pc' = Idle
    /\ result' = [fn |-> "init_ili9341_module",
                  status |-> IF status # ILI9341_EC_OK THEN ILI9341_EC_ERR ELSE status]
    /\ trace' = Append(trace, [ev |-> "return", fn |-> FnAt(pc),
                               status |-> IF status # ILI9341_EC_OK
                                             THEN ILI9341_EC_ERR ELSE status,
                               cs |-> pins.CS, dc |-> pins.DC])
    /\ ret' = Indeterminate
    /\ UNCHANGED <<pins, frame, statics, calls, dma, wire, unit, atCall>>

\* return status; of init_ili9341_module: control goes back to the application.
InitReturn(at, status) ==
    /\ pc = at
    /\ pc' = Idle
    /\ result' = [fn |-> "init_ili9341_module", status |-> status]
    /\ trace' = Append(trace, [ev |-> "return", fn |-> FnAt(pc), status |-> status,
                               cs |-> pins.CS, dc |-> pins.DC])
    /\ ret' = Indeterminate
    /\ UNCHANGED <<pins, frame, statics, calls, dma, wire, unit, atCall>>

\* Mutant: the sequencer stops after the software reset and reports success
\* (the earlier revision of the function, src/unnamed/part_001 lines 106-138).
init_ili9341_module_stops_early ==
    \/ /\ pc = Idle
       /\ calls < MaxInitCalls
       /\ calls' = calls + 1
       /\ result' = NoResult
       /\ trace' = <<>>
       /\ atCall' = [bpp |-> ili9341_bpp_type, fill |-> p_ili9341_fill_screen]
       /\ pc' = 365
       /\ UNCHANGED <<pins, ret, frame, statics, dma, wire, unit>>
    \/ /\ pc = 365
       /\ p_hspi' = "hspi"
       /\ pc' = 368
       /\ UNCHANGED <<pins, ret, frame, p_ili9341_peripherals, ili9341_bpp_type,
                      p_ili9341_fill_screen, result, calls, trace, dma, wire, unit, atCall>>
    \/ /\ pc = 368
       /\ p_ili9341_peripherals' = "peripherals"
       /\ pc' = 371
       /\ UNCHANGED <<pins, ret, frame, p_hspi, ili9341_bpp_type,
                      p_ili9341_fill_screen, result, calls, trace, dma, wire, unit, atCall>>
    \/ disable_cs_pin(371, 372)
    \/ Call(372, NoFrame, 461)
    \/ Call(375, [ili9341_command |-> <<ILI9341_SOFTWARE_RESET_COMMAND>>], 480)
    \/ InitIfRetNotOk(376, 378, 455)
    \/ InitReturn(378, ret)
    \/ InitReturn(455, ILI9341_EC_OK)

\* Mutant: the sequencer goes to the software reset without the hardware
\* reset of line 372.
init_ili9341_module_no_hardware_reset ==
    \/ /\ pc = Idle
       /\ calls < MaxInitCalls
       /\ calls' = calls + 1
       /\ result' = NoResult
       /\ trace' = <<>>
       /\ atCall' = [bpp |-> ili9341_bpp_type, fill |-> p_ili9341_fill_screen]
       /\ pc' = 365
       /\ UNCHANGED <<pins, ret, frame, statics, dma, wire, unit>>
    \/ /\ pc = 365
       /\ p_hspi' = "hspi"
       /\ pc' = 368
       /\ UNCHANGED <<pins, ret, frame, p_ili9341_peripherals, ili9341_bpp_type,
                      p_ili9341_fill_screen, result, calls, trace, dma, wire, unit, atCall>>
    \/ /\ pc = 368
       /\ p_ili9341_peripherals' = "peripherals"
       /\ pc' = 371
       /\ UNCHANGED <<pins, ret, frame, p_hspi, ili9341_bpp_type,
                      p_ili9341_fill_screen, result, calls, trace, dma, wire, unit, atCall>>
    \/ disable_cs_pin(371, 375)
    \/ Call(375, [ili9341_command |-> <<ILI9341_SOFTWARE_RESET_COMMAND>>], 480)
    \/ InitIfRetNotOk(376, 378, 382)
    \/ InitReturn(378, ret)
    \/ Call(382, [gvdd_level |-> ILI9341_GVDD_4V6,
                  ili9341_command_or_data_value |-> <<ILI9341_POWER_CONTROL_1_COMMAND>>], 496)
    \/ InitIfRetNotOk(383, 385, 392)
    \/ InitReturn(385, ret)
    \/ Call(392, [vcomh_voltage |-> ILI9341_VCOMH_4V25,
                  vcoml_voltage |-> ILI9341_VCOML_minus_1V5,
                  ili9341_command |-> <<ILI9341_VCOM_CONTROL_1_COMMAND>>], 520)
    \/ InitIfRetNotOk(393, 395, 399)
    \/ InitReturn(395, ret)
    \/ Call(399, [vmf_offset |-> ILI9341_VMF_minus_58,
                  ili9341_command_or_data_value |-> <<ILI9341_VCOM_CONTROL_2_COMMAND>>], 545)
    \/ InitIfRetNotOk(400, 402, 406)
    \/ InitReturn(402, ret)
    \/ Call(406, [ili9341_command |-> <<ILI9341_MEMORY_ACCESS_CONTROL_COMMAND>>], 569)
    \/ InitIfRetNotOk(407, 409, 413)
    \/ InitReturn(409, ret)
    \/ Call(413, [ili9341_command |-> <<ILI9341_PIXEL_FORMAT_COMMAND>>], 604)
    \/ InitIfRetNotOk(414, 416, 426)
    \/ InitReturn(416, ret)
    \/ Call(426, [ili9341_command |-> <<ILI9341_DISPLAY_FUNCTION_CONTROL_COMMAND>>], 635)
    \/ InitIfRetNotOk(427, 429, 442)
    \/ InitReturn(429, ret)
    \/ Call(442, [ili9341_command |-> <<ILI9341_SLEEP_OUT_COMMAND>>], 665)
    \/ InitIfRetNotOk(443, 445, 449)
    \/ InitReturn(445, ret)
    \/ Call(449, [ili9341_command |-> <<ILI9341_DISPLAY_ON_COMMAND>>], 682)
    \/ InitIfRetNotOk(450, 452, 455)
    \/ InitReturn(452, ret)
    \/ InitReturn(455, ILI9341_EC_OK)

\* init_ili9341_module, lines 359-456.  The first disjunct is the call by
\* the application; each call of a step function passes the arguments and
\* the initialised locals of that function.
init_ili9341_module ==
    \/ /\ pc = Idle
       /\ calls < MaxInitCalls
       /\ calls' = calls + 1
       /\ result' = NoResult
       /\ trace' = <<>>
       /\ atCall' = [bpp |-> ili9341_bpp_type, fill |-> p_ili9341_fill_screen]
       /\ pc' = 365
       /\ UNCHANGED <<pins, ret, frame, statics, dma, wire, unit>>
    \/ /\ pc = 365
       /\ p_hspi' = "hspi"
       /\ pc' = 368
       /\ UNCHANGED <<pins, ret, frame, p_ili9341_peripherals, ili9341_bpp_type,
                      p_ili9341_fill_screen, result, calls, trace, dma, wire, unit, atCall>>
    \/ /\ pc = 368
       /\ p_ili9341_peripherals' = "peripherals"
       /\ pc' = 371
       /\ UNCHANGED <<pins, ret, frame, p_hspi, ili9341_bpp_type,
                      p_ili9341_fill_screen, result, calls, trace, dma, wire, unit, atCall>>
    \/ disable_cs_pin(371, 372)
    \/ Call(372, NoFrame, 461)
    \/ Call(375, [ili9341_command |-> <<ILI9341_SOFTWARE_RESET_COMMAND>>], 480)
    \/ InitIfRetNotOk(376, 378, 382)
    \/ InitReturn(378, ret)
    \/ Call(382, [gvdd_level |-> ILI9341_GVDD_4V6,
                  ili9341_command_or_data_value |-> <<ILI9341_POWER_CONTROL_1_COMMAND>>], 496)
    \/ InitIfRetNotOk(383, 385, 392)
    \/ InitReturn(385, ret)
    \/ Call(392, [vcomh_voltage |-> ILI9341_VCOMH_4V25,
                  vcoml_voltage |-> ILI9341_VCOML_minus_1V5,
                  ili9341_command |-> <<ILI9341_VCOM_CONTROL_1_COMMAND>>], 520)
    \/ InitIfRetNotOk(393, 395, 399)
    \/ InitReturn(395, ret)
    \/ Call(399, [vmf_offset |-> ILI9341_VMF_minus_58,
                  ili9341_command_or_data_value |-> <<ILI9341_VCOM_CONTROL_2_COMMAND>>], 545)
    \/ InitIfRetNotOk(400, 402, 406)
    \/ InitReturn(402, ret)
    \/ Call(406, [ili9341_command |-> <<ILI9341_MEMORY_ACCESS_CONTROL_COMMAND>>], 569)
    \/ InitIfRetNotOk(407, 409, 413)
    \/ InitReturn(409, ret)
    \/ Call(413, [ili9341_command |-> <<ILI9341_PIXEL_FORMAT_COMMAND>>], 604)
    \/ InitIfRetNotOk(414, 416, 426)
    \/ InitReturn(416, ret)
    \/ Call(426, [ili9341_command |-> <<ILI9341_DISPLAY_FUNCTION_CONTROL_COMMAND>>], 635)
    \/ InitIfRetNotOk(427, 429, 442)
    \/ InitReturn(429, ret)
    \/ Call(442, [ili9341_command |-> <<ILI9341_SLEEP_OUT_COMMAND>>], 665)
    \/ InitIfRetNotOk(443, 445, 449)
    \/ InitReturn(445, ret)
    \/ Call(449, [ili9341_command |-> <<ILI9341_DISPLAY_ON_COMMAND>>], 682)
    \/ InitIfRetNotOk(450, 452, 455)
    \/ InitReturn(452, ret)
    \/ InitReturn(455, ILI9341_EC_OK)

(* ------------------------------------------------------------------ *)
(* Mode selection                                                      *)
(* ------------------------------------------------------------------ *)

\* Mutant: the mode is stored before the switch checks it.
set_ili9341_bpp_type_stores_unchecked ==
    /\ pc = Idle
    /\ \E bpp \in 0..MaxBppCode :
          /\ ili9341_bpp_type' = bpp
          /\ CASE bpp = ILI9341_BPP_16 ->
                     /\ p_ili9341_fill_screen' = "ili9341_fill_screen_16bpp"
                     /\ result' = [fn |-> "set_ili9341_bpp_type", bpp |-> bpp,
                                   status |-> ILI9341_EC_OK]
               [] bpp = ILI9341_BPP_18 ->
                     /\ p_ili9341_fill_screen' = "ili9341_fill_screen_18bpp"
                     /\ result' = [fn |-> "set_ili9341_bpp_type", bpp |-> bpp,
                                   status |-> ILI9341_EC_OK]
               [] OTHER ->
                     /\ result' = [fn |-> "set_ili9341_bpp_type", bpp |-> bpp,
                                   status |-> ILI9341_EC_ERR]
                     /\ UNCHANGED p_ili9341_fill_screen
    /\ UNCHANGED <<pc, pins, ret, frame, p_hspi, p_ili9341_peripherals, calls,
                   trace, dma, wire, unit, atCall>>

\* set_ili9341_bpp_type, lines 691-708, called by the application.
set_ili9341_bpp_type ==
    /\ pc = Idle
    /\ \E bpp \in 0..MaxBppCode :
          CASE bpp = ILI9341_BPP_16 ->
                  /\ p_ili9341_fill_screen' = "ili9341_fill_screen_16bpp"
                  /\ ili9341_bpp_type' = bpp
                  /\ result' = [fn |-> "set_ili9341_bpp_type", bpp |-> bpp,
                                status |-> ILI9341_EC_OK]
            [] bpp = ILI9341_BPP_18 ->
                  /\ p_ili9341_fill_screen' = "ili9341_fill_screen_18bpp"
                  /\ ili9341_bpp_type' = bpp
                  /\ result' = [fn |-> "set_ili9341_bpp_type", bpp |-> bpp,
                                status |-> ILI9341_EC_OK]
            [] OTHER ->
                  /\ result' = [fn |-> "set_ili9341_bpp_type", bpp |-> bpp,
                                status |-> ILI9341_EC_ERR]
                  /\ UNCHANGED <<p_ili9341_fill_screen, ili9341_bpp_type>>
    /\ UNCHANGED <<pc, pins, ret, frame, p_hspi, p_ili9341_peripherals, calls,
                   trace, dma, wire, unit, atCall>>

(* ------------------------------------------------------------------ *)
(* The DMA-SPI transport                                               *)
(* ------------------------------------------------------------------ *)

BufferNames == {"ili9341_command", "ili9341_command_or_data_value", "ili9341_data_value"}

\* The bytes that the locals f hold in their buffers.
FrameBytes(f) ==
    UNION {{f[x][i] : i \in 1..Len(f[x])} : x \in DOMAIN f \cap BufferNames}

\* What the DMA can read as byte i of the buffer it was handed.  While the
\* function that owns the buffer runs, that is what the buffer holds now.
\* After it returned the buffer is dead stack memory: it still holds the old
\* byte, or what the function running now stored in its own locals.
DmaRead(i) ==
    IF FnAt(pc) = dma.fn
       THEN {frame[dma.buf][i]}
       ELSE {dma.bytes[i]} \cup FrameBytes(frame)

\* The SPI peripheral sends the next byte of the transfer in flight, with
\* the pins as they are at that moment.
SPI_SendByte ==
    /\ dma.sent < dma.size
    /\ \E b \in DmaRead(dma.sent + 1) :
          wire' = [sent |-> TRUE, byte |-> b, handed |-> dma.bytes[dma.sent + 1],
                   cs |-> pins.CS, dc |-> pins.DC, dcAtRequest |-> dma.dc]
    /\ dma' = [dma EXCEPT !.sent = @ + 1]
    /\ UNCHANGED <<pc, pins, ret, frame, statics, result, calls, trace, unit, atCall>>

(* ------------------------------------------------------------------ *)
(* Specifications                                                      *)
(* ------------------------------------------------------------------ *)

\* After start-up: the statics are zero-initialised (NULL pointers, mode 0),
\* the three lines are at whatever level the board left them.
Init ==
    /\ pc = Idle
    /\ pins \in [CS : GPIO_PinState, RESET : GPIO_PinState, DC : GPIO_PinState]
    /\ ret = Indeterminate
    /\ frame = NoFrame
    /\ p_hspi = "NULL"
    /\ p_ili9341_peripherals = "NULL"
    /\ ili9341_bpp_type = 0
    /\ p_ili9341_fill_screen = "NULL"
    /\ result = NoResult
    /\ calls = 0
    /\ trace = <<>>
    /\ dma = NoTransfer
    /\ wire = NoByte
    /\ unit = NoUnit
    /\ atCall = NoCall

Next ==
    \/ init_ili9341_module
    \/ ili9341_hardware_reset
    \/ ili9341_software_reset
    \/ ili9341_configure_power_control_1
    \/ ili9341_configure_vcom_control_1
    \/ ili9341_configure_vcom_control_2
    \/ ili9341_configure_memory_access_control
    \/ ili9341_configure_pixel_format
    \/ ili9341_configure_display_function_control
    \/ ili9341_exit_sleep_mode
    \/ ili9341_turn_display_on
    \/ set_ili9341_bpp_type
    \/ SPI_SendByte

Spec == Init /\ [][Next]_vars

\* A statement of the driver, while init_ili9341_module is running.
Driver ==
    /\ pc # Idle
    /\ \/ init_ili9341_module
       \/ ili9341_hardware_reset
       \/ ili9341_software_reset
       \/ ili9341_configure_power_control_1
       \/ ili9341_configure_vcom_control_1
       \/ ili9341_configure_vcom_control_2
       \/ ili9341_configure_memory_access_control
       \/ ili9341_configure_pixel_format
       \/ ili9341_configure_display_function_control
       \/ ili9341_exit_sleep_mode
       \/ ili9341_turn_display_on

\* The driver with a processor that keeps executing it (every delay and
\* every HAL call returns) and a transport that finishes every transfer it
\* accepted.  The application is free to call or not.
SpecLive == Init /\ [][Next]_vars /\ WF_pc(Driver) /\ WF_dma(SPI_SendByte)

\* HAL_ret_handler on its own: the argument is any code 0..MaxHalCode.
InitTranslator ==
    /\ pc = Idle
    /\ pins = [CS |-> GPIO_PIN_SET, RESET |-> GPIO_PIN_SET, DC |-> GPIO_PIN_RESET]
    /\ ret = Indeterminate
    /\ frame = NoFrame
    /\ p_hspi = "NULL"
    /\ p_ili9341_peripherals = "NULL"
    /\ ili9341_bpp_type = 0
    /\ p_ili9341_fill_screen = "NULL"
    /\ result = NoResult
    /\ calls = 0
    /\ trace = <<>>
    /\ dma = NoTransfer
    /\ wire = NoByte
    /\ atCall = NoCall
    /\ unit \in {[fn |-> "HAL_ret_handler", HAL_status |-> c] : c \in 0..MaxHalCode}

Translate ==
    /\ unit.fn = "HAL_ret_handler"
    /\ "value" \notin DOMAIN unit
    /\ unit' = [fn |-> "HAL_ret_handler", HAL_status |-> unit.HAL_status,
                value |-> HAL_ret_handler(unit.HAL_status)]
    /\ UNCHANGED <<pc, pins, ret, frame, statics, result, calls, trace, dma, wire,
                   atCall>>

NextTranslator == Translate

SpecTranslator == InitTranslator /\ [][NextTranslator]_vars

(* ------------------------------------------------------------------ *)
(* Reading the trace of an init call                                   *)
(* ------------------------------------------------------------------ *)

\* The step functions that transmit, in the order init calls them.
StepFunctions ==
    <<"ili9341_software_reset", "ili9341_configure_power_control_1",
      "ili9341_configure_vcom_control_1", "ili9341_configure_vcom_control_2",
      "ili9341_configure_memory_access_control", "ili9341_configure_pixel_format",
      "ili9341_configure_display_function_control", "ili9341_exit_sleep_mode",
      "ili9341_turn_display_on">>

StepSet == {StepFunctions[i] : i \in 1..Len(StepFunctions)}

\* The sequencer state that the successful return of a function leads to.
StateAfter(fn) ==
    CASE fn = "ili9341_hardware_reset" -> "HardwareReset"
      [] fn = "ili9341_software_reset" -> "SoftwareReset"
      [] fn = "ili9341_configure_power_control_1" -> "PowerConfigured"
      [] fn = "ili9341_configure_vcom_control_1" -> "VCOM1Configured"
      [] fn = "ili9341_configure_vcom_control_2" -> "VCOM2Configured"
      [] fn = "ili9341_configure_memory_access_control" -> "MemoryAccessConfigured"
      [] fn = "ili9341_configure_pixel_format" -> "PixelFormatConfigured"
      [] fn = "ili9341_configure_display_function_control" -> "DisplayFunctionConfigured"
      [] fn = "ili9341_exit_sleep_mode" -> "SleepExited"
      [] fn = "ili9341_turn_display_on" -> "DisplayOn"

TenStates ==
    <<"HardwareReset", "SoftwareReset", "PowerConfigured", "VCOM1Configured",
      "VCOM2Configured", "MemoryAccessConfigured", "PixelFormatConfigured",
      "DisplayFunctionConfigured", "SleepExited", "DisplayOn">>

NineOpcodes == <<1, 192, 197, 199, 54, 58, 182, 17, 41>>

IsPrefix(s, t) == Len(s) <= Len(t) /\ \A i \in 1..Len(s) : s[i] = t[i]

IsTx(e) == e.ev = "tx"

IsStepReturn(e) == e.ev = "return" /\ e.fn \in StepSet

IsInitReturn(e) == e.ev = "return" /\ e.fn = "init_ili9341_module"

IsPinWrite(e, pin, level) == e.ev = "gpio" /\ e.pin = pin /\ e.val = level

\* init_ili9341_module has returned, and no new call of it has started.
InitReturned == Len(trace) > 0 /\ IsInitReturn(trace[Len(trace)])

InitStatus == trace[Len(trace)].status

\* Every transmit request so far was answered HAL_OK.
TransportAlwaysOk == \A i \in 1..Len(trace) : IsTx(trace[i]) => trace[i].hal = HAL_OK

\* The sequencer states passed so far: one per function that has completed
\* (the hardware reset, and each step that returned ILI9341_EC_OK).
Completed ==
    SelectSeq(trace, LAMBDA e : \/ e.ev = "return_void"
                                \/ (IsStepReturn(e) /\ e.status = ILI9341_EC_OK))

StatesPassed == [i \in 1..Len(Completed) |-> StateAfter(Completed[i].fn)]

RECURSIVE Flatten(_)
Flatten(ss) == IF ss = <<>> THEN <<>> ELSE Head(ss) \o Flatten(Tail(ss))

\* The bytes handed to the transport while the data/command line was low.
CommandTx == SelectSeq(trace, LAMBDA e : IsTx(e) /\ e.dc = GPIO_PIN_RESET)

CommandBytes == Flatten([i \in 1..Len(CommandTx) |-> CommandTx[i].bytes])

(* ------------------------------------------------------------------ *)
(* Claims                                                              *)
(* ------------------------------------------------------------------ *)

\* C1: with a transport that answers HAL_OK to every request, init passes
\* through the ten sequencer states in order and returns ILI9341_EC_OK, and
\* the bytes it transmits in command state are the nine opcodes 0x01, 0xC0,
\* 0xC5, 0xC7, 0x36, 0x3A, 0xB6, 0x11, 0x29, each once, in that order.
C1_AlwaysOkRun ==
    TransportAlwaysOk =>
        /\ IsPrefix(StatesPassed, TenStates)
        /\ IsPrefix(CommandBytes, NineOpcodes)
        /\ InitReturned =>
              /\ InitStatus = ILI9341_EC_OK
              /\ StatesPassed = TenStates
              /\ CommandBytes = NineOpcodes

C1_Witness ==
    /\ InitReturned
    /\ TransportAlwaysOk
    /\ InitStatus = ILI9341_EC_OK
    /\ Len(CommandTx) = 9

\* The index of the first step return whose verdict is not ILI9341_EC_OK
\* (0 when there is none).
IsFailure(e) == IsStepReturn(e) /\ e.status # ILI9341_EC_OK

FirstFailure ==
    IF \E i \in 1..Len(trace) : IsFailure(trace[i])
       THEN CHOOSE i \in 1..Len(trace) :
               IsFailure(trace[i]) /\ \A j \in 1..(i - 1) : ~IsFailure(trace[j])
       ELSE 0

\* The transmit requests of step function fn in the trace.
TxOf(fn) == SelectSeq(trace, LAMBDA e : IsTx(e) /\ e.fn = fn)

ReturnsOf(fn) == SelectSeq(trace, LAMBDA e : e.ev = "return" /\ e.fn = fn)

\* C2: init returns exactly the verdict of the first step whose verdict is
\* not OK, unchanged (NO_RESPONSE stays NO_RESPONSE, ERROR stays ERROR), and
\* no step runs twice: the failing step is not retried.
C2_FirstFailureReturned ==
    /\ \A i \in 1..Len(StepFunctions) : Len(ReturnsOf(StepFunctions[i])) <= 1
    /\ InitReturned =>
          /\ FirstFailure # 0 => InitStatus = trace[FirstFailure].status
          /\ FirstFailure = 0 => InitStatus = ILI9341_EC_OK

C2_Witness ==
    /\ InitReturned
    /\ FirstFailure # 0
    /\ trace[FirstFailure].fn = "ili9341_configure_display_function_control"
    /\ trace[FirstFailure].status = ILI9341_EC_NR
    /\ InitStatus = ILI9341_EC_NR

\* C3: once a step has returned a verdict that is not OK, nothing more is
\* transmitted and no line is written: init returns next.  In particular a
\* hard error on the VCOM Control 2 step makes init return ILI9341_EC_ERR
\* with none of 0x36, 0x3A, 0xB6, 0x11, 0x29 ever handed to the transport.
C3_FailFast ==
    /\ \A i \in 1..Len(trace) :
          IsFailure(trace[i]) =>
              /\ i >= Len(trace) - 1
              /\ i = Len(trace) - 1 => IsInitReturn(trace[Len(trace)])
              /\ FnAt(pc) \in {"init_ili9341_module", "application"}
    /\ (\E i \in 1..Len(trace) :
            /\ IsTx(trace[i])
            /\ trace[i].fn = "ili9341_configure_vcom_control_2"
            /\ trace[i].hal = HAL_ERROR)
        => /\ \A j \in 1..Len(trace) :
                 IsTx(trace[j]) => \A k \in 1..Len(trace[j].bytes) :
                                      trace[j].bytes[k] \notin {54, 58, 182, 17, 41}
           /\ InitReturned => InitStatus = ILI9341_EC_ERR

C3_Witness ==
    /\ InitReturned
    /\ InitStatus = ILI9341_EC_ERR
    /\ \E i \in 1..Len(trace) :
          /\ IsTx(trace[i])
          /\ trace[i].fn = "ili9341_configure_vcom_control_2"
          /\ trace[i].hal = HAL_ERROR

\* C4: in every step, a transmit request (command byte or data bytes) that
\* the transport answers with HAL_BUSY or HAL_TIMEOUT makes the step return
\* ILI9341_EC_NR, with chip-select de-asserted (high) when it returns.
C4_BusyOrTimeoutGivesNoResponse ==
    \A i \in 1..Len(trace) :
        (/\ IsStepReturn(trace[i])
         /\ \E k \in 1..Len(TxOf(trace[i].fn)) :
               TxOf(trace[i].fn)[k].hal \in {HAL_BUSY, HAL_TIMEOUT})
        => /\ trace[i].status = ILI9341_EC_NR
           /\ trace[i].cs = GPIO_PIN_SET

C4_Witness ==
    \E i \in 1..Len(trace) :
        /\ IsStepReturn(trace[i])
        /\ Len(TxOf(trace[i].fn)) = 2
        /\ TxOf(trace[i].fn)[2].hal = HAL_TIMEOUT
        /\ TxOf(trace[i].fn)[2].dc = GPIO_PIN_SET
        /\ trace[i].status = ILI9341_EC_NR

\* C5: in every step, a transmit request that the transport answers with
\* HAL_ERROR makes the step return ILI9341_EC_ERR with chip-select
\* de-asserted; no step and no init call returns a failure with chip-select
\* still asserted.
C5_HardErrorGivesError ==
    /\ \A i \in 1..Len(trace) :
          (/\ IsStepReturn(trace[i])
           /\ \E k \in 1..Len(TxOf(trace[i].fn)) : TxOf(trace[i].fn)[k].hal = HAL_ERROR)
          => /\ trace[i].status = ILI9341_EC_ERR
             /\ trace[i].cs = GPIO_PIN_SET
    /\ \A i \in 1..Len(trace) :
          (trace[i].ev = "return" /\ trace[i].status # ILI9341_EC_OK)
          => trace[i].cs = GPIO_PIN_SET
    /\ (InitReturned /\ InitStatus # ILI9341_EC_OK) => pins.CS = GPIO_PIN_SET

C5_Witness ==
    \E i \in 1..Len(trace) :
        /\ IsStepReturn(trace[i])
        /\ trace[i].fn = "ili9341_configure_display_function_control"
        /\ Len(TxOf(trace[i].fn)) = 1
        /\ TxOf(trace[i].fn)[1].hal = HAL_ERROR
        /\ trace[i].status = ILI9341_EC_ERR

\* C6: HAL_ret_handler maps HAL_BUSY and HAL_TIMEOUT to ILI9341_EC_NR,
\* HAL_ERROR to ILI9341_EC_ERR, and gives back every other code with its
\* numeric value unchanged, so that HAL_OK (0) yields ILI9341_EC_OK (0).
C6_StatusTranslation ==
    "value" \in DOMAIN unit =>
        /\ unit.HAL_status \in {2, 3} => unit.value = 2
        /\ unit.HAL_status = 1 => unit.value = 4
        /\ unit.HAL_status \notin {1, 2, 3} => unit.value = unit.HAL_status
        /\ unit.HAL_status = HAL_OK => unit.value = ILI9341_EC_OK

C6_Witness ==
    /\ "value" \in DOMAIN unit
    /\ unit.HAL_status = 5
    /\ unit.value = 5

\* C7: whatever the transport answers among HAL_OK, HAL_ERROR, HAL_BUSY and
\* HAL_TIMEOUT, init returns ILI9341_EC_OK, ILI9341_EC_NR or ILI9341_EC_ERR,
\* never ILI9341_EC_STOP (1) or ILI9341_EC_NA (3).
C7_InitStatusRange ==
    /\ InitReturned => InitStatus \in {ILI9341_EC_OK, ILI9341_EC_NR, ILI9341_EC_ERR}
    /\ result.fn = "init_ili9341_module" => result.status \notin {1, 3}

C7_Witness ==
    /\ InitReturned
    /\ InitStatus = ILI9341_EC_NR
    /\ \E i \in 1..Len(trace) : IsTx(trace[i]) /\ trace[i].hal = HAL_TIMEOUT

\* Number of writes of level to chip-select that function fn made.
CsWrites(fn, level) ==
    Len(SelectSeq(trace, LAMBDA e : IsPinWrite(e, "CS", level) /\ e.fn = fn))

\* C8: chip-select is never asserted (driven low) while it is already
\* asserted: each step asserts it once and de-asserts it once afterwards,
\* before the next step can assert it, whatever the transport answers.
C8_ChipSelectBracketsOneFrame ==
    /\ \A i \in 1..Len(trace) :
          IsPinWrite(trace[i], "CS", GPIO_PIN_RESET) => trace[i].cs = GPIO_PIN_SET
    /\ \A k \in 1..Len(StepFunctions) :
          /\ CsWrites(StepFunctions[k], GPIO_PIN_RESET) <= 1
          /\ CsWrites(StepFunctions[k], GPIO_PIN_SET) <= CsWrites(StepFunctions[k], GPIO_PIN_RESET)
          /\ Len(ReturnsOf(StepFunctions[k])) = 1 =>
                /\ CsWrites(StepFunctions[k], GPIO_PIN_RESET) = 1
                /\ CsWrites(StepFunctions[k], GPIO_PIN_SET) = 1

C8_Witness ==
    /\ InitReturned
    /\ InitStatus # ILI9341_EC_OK
    /\ CsWrites("ili9341_configure_vcom_control_1", GPIO_PIN_RESET) = 1
    /\ CsWrites("ili9341_configure_vcom_control_2", GPIO_PIN_RESET) = 1
    /\ CsWrites("ili9341_configure_vcom_control_2", GPIO_PIN_SET) = 1

\* C9: whenever chip-select becomes asserted the data/command line is in
\* command state (low), also when the step before left it in data state;
\* the line goes to data state only right after a command transmit of the
\* same step that the transport accepted.
C9_FrameStartsInCommandState ==
    /\ \A i \in 1..Len(trace) :
          IsPinWrite(trace[i], "CS", GPIO_PIN_RESET) => trace[i].dc = GPIO_PIN_RESET
    /\ \A i \in 1..Len(trace) :
          IsPinWrite(trace[i], "DC", GPIO_PIN_SET) =>
              /\ i > 1
              /\ IsTx(trace[i - 1])
              /\ trace[i - 1].fn = trace[i].fn
              /\ trace[i - 1].dc = GPIO_PIN_RESET
              /\ trace[i - 1].status = ILI9341_EC_OK
              /\ trace[i].cs = GPIO_PIN_RESET

C9_Witness ==
    \E i \in 2..Len(trace) :
        /\ IsPinWrite(trace[i], "CS", GPIO_PIN_RESET)
        /\ IsPinWrite(trace[i - 1], "DC", GPIO_PIN_RESET)
        /\ trace[i - 1].dc = GPIO_PIN_SET
        /\ \E j \in 1..(i - 2) : IsPinWrite(trace[j], "DC", GPIO_PIN_SET)

\* What one event of the trace did, without the levels of the other lines.
Did(e) ==
    [ev |-> e.ev,
     pin |-> IF e.ev = "gpio" THEN e.pin ELSE "-",
     val |-> IF e.ev = "gpio" THEN e.val ELSE "-",
     ms |-> IF e.ev = "delay" THEN e.ms ELSE 0]

HardwareResetEvents == SelectSeq(trace, LAMBDA e : e.fn = "ili9341_hardware_reset")

HardwareResetDid == [i \in 1..Len(HardwareResetEvents) |-> Did(HardwareResetEvents[i])]

ResetProcedure ==
    <<[ev |-> "gpio", pin |-> "RESET", val |-> "GPIO_PIN_SET", ms |-> 0],
      [ev |-> "delay", pin |-> "-", val |-> "-", ms |-> 1],
      [ev |-> "gpio", pin |-> "RESET", val |-> "GPIO_PIN_RESET", ms |-> 0],
      [ev |-> "delay", pin |-> "-", val |-> "-", ms |-> 1],
      [ev |-> "gpio", pin |-> "RESET", val |-> "GPIO_PIN_SET", ms |-> 0],
      [ev |-> "delay", pin |-> "-", val |-> "-", ms |-> 5],
      [ev |-> "return_void", pin |-> "-", val |-> "-", ms |-> 0]>>

RECURSIVE SumMs(_)
SumMs(es) == IF es = <<>> THEN 0 ELSE Head(es).ms + SumMs(Tail(es))

\* C10: the hardware reset does, on the reset line and in this order: high,
\* delay 1, low, delay 1, high, delay 5 (7 time units in all), from any
\* state of the pins, the statics and the transport; nothing else happens
\* in between (no other line, no transmit) and it returns no value.
C10_HardwareResetProcedure ==
    /\ IsPrefix(HardwareResetDid, ResetProcedure)
    /\ \A k \in 1..Len(HardwareResetEvents) : trace[k + 1] = HardwareResetEvents[k]
    /\ FnAt(pc) = "ili9341_hardware_reset" => Len(HardwareResetEvents) < 7
    /\ (Len(trace) > 1 /\ FnAt(pc) # "ili9341_hardware_reset" /\ pc # 372) =>
          /\ HardwareResetDid = ResetProcedure
          /\ SumMs(HardwareResetDid) = 7

C10_Witness ==
    /\ calls = 2
    /\ HardwareResetDid = ResetProcedure
    /\ dma.sent < dma.size
    /\ ili9341_bpp_type = ILI9341_BPP_18

\* The time units of blocking delay in the events es.
RECURSIVE DelaySum(_)
DelaySum(es) ==
    IF es = <<>> THEN 0
    ELSE (IF Head(es).ev = "delay" THEN Head(es).ms ELSE 0) + DelaySum(Tail(es))

\* The index in the trace of the request that hands opcode op to the
\* transport in command state (0 when there is none).
CommandTxIndex(op) ==
    IF \E i \in 1..Len(trace) :
          IsTx(trace[i]) /\ trace[i].dc = GPIO_PIN_RESET /\ trace[i].bytes = <<op>>
       THEN CHOOSE i \in 1..Len(trace) :
               IsTx(trace[i]) /\ trace[i].dc = GPIO_PIN_RESET /\ trace[i].bytes = <<op>>
       ELSE 0

\* The blocking delay between events i and j of the trace.
DelayBetween(i, j) == DelaySum(SubSeq(trace, i + 1, j - 1))

SleepOutToDisplayOn ==
    DelayBetween(CommandTxIndex(ILI9341_SLEEP_OUT_COMMAND),
                 CommandTxIndex(ILI9341_DISPLAY_ON_COMMAND))

BothSleepOutAndDisplayOnSent ==
    /\ CommandTxIndex(ILI9341_SLEEP_OUT_COMMAND) # 0
    /\ CommandTxIndex(ILI9341_DISPLAY_ON_COMMAND) # 0

\* C11 as stated: at least 120 time units of blocking delay elapse between
\* the transmit request of Sleep-Out (0x11) and that of Display-On (0x29).
C11_Original == BothSleepOutAndDisplayOnSent => SleepOutToDisplayOn >= 120

\* C11, amended: the blocking delay between the transmit request of
\* Sleep-Out (0x11) and the transmit request of Display-On (0x29) is the
\* 5 time units that the Sleep-Out step waits before it returns, and
\* Display-On is requested after Sleep-Out.
C11_SleepOutWaitIsFive ==
    BothSleepOutAndDisplayOnSent =>
        /\ CommandTxIndex(ILI9341_SLEEP_OUT_COMMAND) < CommandTxIndex(ILI9341_DISPLAY_ON_COMMAND)
        /\ SleepOutToDisplayOn = 5

C11_Witness ==
    /\ BothSleepOutAndDisplayOnSent
    /\ InitReturned
    /\ SleepOutToDisplayOn = 5

\* The index in the trace of the return of ili9341_hardware_reset (0 when
\* it has not returned yet).
HardwareResetEnd ==
    IF \E i \in 1..Len(trace) : trace[i].ev = "return_void"
       THEN CHOOSE i \in 1..Len(trace) : trace[i].ev = "return_void"
       ELSE 0

\* C12: in init_ili9341_module at least 120 time units of delay elapse
\* between the end of the hardware reset procedure and the transmit request
\* of the Sleep-Out command (0x11).
C12_ResetToSleepOutWait ==
    CommandTxIndex(ILI9341_SLEEP_OUT_COMMAND) # 0 =>
        /\ HardwareResetEnd # 0
        /\ DelayBetween(HardwareResetEnd, CommandTxIndex(ILI9341_SLEEP_OUT_COMMAND)) >= 120

\* Bit k of byte b.
Bit(b, k) == (b \div (2 ^ k)) % 2

\* The requests of step function fn made with the data/command line high.
DataTxOf(fn) == SelectSeq(TxOf(fn), LAMBDA e : e.dc = GPIO_PIN_SET)

\* C13: the Memory Access Control step hands exactly one data byte to the
\* transport, and that byte is 0x48: bits 0-1 reserved = 0, bit 2 MH = 0,
\* bit 3 BGR = 1, bit 4 ML = 0, bit 5 MV = 0, bit 6 MX = 1 (column address
\* order reverse), bit 7 MY = 0.
C13_MemoryAccessControlByte ==
    /\ Len(DataTxOf("ili9341_configure_memory_access_control")) <= 1
    /\ \A i \in 1..Len(DataTxOf("ili9341_configure_memory_access_control")) :
          LET e == DataTxOf("ili9341_configure_memory_access_control")[i] IN
             /\ e.size = 1
             /\ Len(e.bytes) = 1
             /\ e.bytes[1] = 72
             /\ <<Bit(e.bytes[1], 0), Bit(e.bytes[1], 1), Bit(e.bytes[1], 2),
                  Bit(e.bytes[1], 3), Bit(e.bytes[1], 4), Bit(e.bytes[1], 5),
                  Bit(e.bytes[1], 6), Bit(e.bytes[1], 7)>>
                    = <<0, 0, 0, 1, 0, 0, 1, 0>>
    /\ Len(ReturnsOf("ili9341_configure_memory_access_control")) = 1
          /\ ReturnsOf("ili9341_configure_memory_access_control")[1].status = ILI9341_EC_OK
       => Len(DataTxOf("ili9341_configure_memory_access_control")) = 1

C13_Witness ==
    /\ Len(ReturnsOf("ili9341_configure_memory_access_control")) = 1
    /\ ReturnsOf("ili9341_configure_memory_access_control")[1].status = ILI9341_EC_OK
    /\ Len(DataTxOf("ili9341_configure_memory_access_control")) = 1
    /\ DataTxOf("ili9341_configure_memory_access_control")[1].bytes = <<72>>

\* C14: every execution of the Pixel Format step hands the same single data
\* byte 0x55 to the transport (MCU-interface sub-field 0x05 in bits 0-2,
\* RGB-interface sub-field 0x05 in bits 4-6, bits 3 and 7 zero), in the
\* first init call and in a later one, and also when the mode was 18-bit
\* when the init call began.
C14_PixelFormatByte ==
    /\ Len(DataTxOf("ili9341_configure_pixel_format")) <= 1
    /\ \A i \in 1..Len(DataTxOf("ili9341_configure_pixel_format")) :
          LET e == DataTxOf("ili9341_configure_pixel_format")[i] IN
             /\ e.size = 1
             /\ e.bytes = <<85>>
             /\ e.bytes[1] % 8 = 5
             /\ (e.bytes[1] \div 16) % 8 = 5
             /\ Bit(e.bytes[1], 3) = 0
             /\ Bit(e.bytes[1], 7) = 0
    /\ Len(ReturnsOf("ili9341_configure_pixel_format")) = 1
          /\ ReturnsOf("ili9341_configure_pixel_format")[1].status = ILI9341_EC_OK
       => Len(DataTxOf("ili9341_configure_pixel_format")) = 1

C14_Witness ==
    /\ calls = 2
    /\ atCall.bpp = ILI9341_BPP_18
    /\ Len(DataTxOf("ili9341_configure_pixel_format")) = 1
    /\ DataTxOf("ili9341_configure_pixel_format")[1].bytes = <<85>>

\* The fill routine of a mode.
FillRoutineOf(bpp) ==
    CASE bpp = ILI9341_BPP_16 -> "ili9341_fill_screen_16bpp"
      [] bpp = ILI9341_BPP_18 -> "ili9341_fill_screen_18bpp"

\* A step of the application calling set_ili9341_bpp_type: control stays with
\* the application and the transport does nothing.
ModeSelectStep == pc = Idle /\ pc' = Idle /\ dma' = dma /\ vars' # vars

\* C15: set_ili9341_bpp_type returns ILI9341_EC_OK for the 16-bit and the
\* 18-bit mode, and then the mode is the requested one and the fill dispatch
\* is that mode's routine; for any other code it returns ILI9341_EC_ERR and
\* leaves the mode and the fill dispatch as they were.
C15_ModeSelect ==
    [][ModeSelectStep =>
          /\ result'.fn = "set_ili9341_bpp_type"
          /\ result'.bpp \in {ILI9341_BPP_16, ILI9341_BPP_18} =>
                /\ result'.status = ILI9341_EC_OK
                /\ ili9341_bpp_type' = result'.bpp
                /\ p_ili9341_fill_screen' = FillRoutineOf(result'.bpp)
          /\ result'.bpp \notin {ILI9341_BPP_16, ILI9341_BPP_18} =>
                /\ result'.status = ILI9341_EC_ERR
                /\ ili9341_bpp_type' = ili9341_bpp_type
                /\ p_ili9341_fill_screen' = p_ili9341_fill_screen]_vars

C15_Witness ==
    /\ result.fn = "set_ili9341_bpp_type"
    /\ result.bpp = 2
    /\ result.status = ILI9341_EC_ERR
    /\ ili9341_bpp_type = ILI9341_BPP_18
    /\ p_ili9341_fill_screen = "ili9341_fill_screen_18bpp"

\* C16 as stated: the mode changes only in a call of set_ili9341_bpp_type.
C16_Original ==
    [][ili9341_bpp_type' # ili9341_bpp_type =>
          pc = Idle /\ result'.fn = "set_ili9341_bpp_type"]_vars

\* C16, amended: the mode changes only in a call of set_ili9341_bpp_type
\* and at the start of the Pixel Format step of init_ili9341_module, which
\* sets it to 16-bit; no other operation changes it.
C16_ModeChangedOnlyBySelectOrPixelFormat ==
    [][ili9341_bpp_type' # ili9341_bpp_type =>
          \/ pc = Idle /\ result'.fn = "set_ili9341_bpp_type"
          \/ /\ FnAt(pc) = "ili9341_configure_pixel_format"
             /\ trace' = trace
             /\ TxOf("ili9341_configure_pixel_format") = <<>>
             /\ ili9341_bpp_type' = ILI9341_BPP_16]_vars

C16_Witness ==
    /\ atCall.bpp = ILI9341_BPP_18
    /\ FnAt(pc) = "ili9341_configure_pixel_format"
    /\ ili9341_bpp_type = ILI9341_BPP_16

\* A step of the driver that makes a transmit request.
TxRequestStep == Len(trace') = Len(trace) + 1 /\ IsTx(trace'[Len(trace')])

\* C17: every transmit request, for a command byte and for data bytes
\* alike, is made in a state where the transport has nothing left to send
\* (the poll of the transfer-idle signal has ended), so no transfer is
\* handed to a transport that is still sending the one before.
C17_RequestOnlyWhenIdle ==
    [][TxRequestStep => dma.sent = dma.size]_vars

\* A payload request was accepted right after the command request of the
\* same step was accepted and sent.
C17_Witness ==
    /\ Len(TxOf("ili9341_configure_vcom_control_1")) = 2
    /\ IsTx(trace[Len(trace)])
    /\ trace[Len(trace)].dc = GPIO_PIN_SET
    /\ trace[Len(trace)].hal = HAL_OK
    /\ TxOf("ili9341_configure_vcom_control_1")[1].hal = HAL_OK
    /\ dma.sent = 0
    /\ dma.size = 2
    /\ wire.sent
    /\ wire.byte = ILI9341_VCOM_CONTROL_1_COMMAND

\* C18: with the transport sending an accepted transfer after the transmit
\* call has returned, chip-select is asserted (low) at every moment a byte
\* of a frame is sent.
C18_ChipSelectHeldWhileSending ==
    wire.sent => wire.cs = GPIO_PIN_RESET

\* C19: with the transport sending asynchronously, every byte is sent with
\* the data/command line as it was when its transfer was requested: opcode
\* bytes in command state (low), payload bytes in data state (high).
C19_DataCommandLineHeldWhileSending ==
    wire.sent => wire.dc = wire.dcAtRequest

\* The index in the trace of the first transmit request (0 when there is none).
FirstTxIndex ==
    IF \E i \in 1..Len(trace) : IsTx(trace[i])
       THEN CHOOSE i \in 1..Len(trace) :
               IsTx(trace[i]) /\ \A j \in 1..(i - 1) : ~IsTx(trace[j])
       ELSE 0

\* The writes of the reset line among the events es.
ResetWrites(es) == SelectSeq(es, LAMBDA e : e.ev = "gpio" /\ e.pin = "RESET")

ResetLevels(es) == [k \in 1..Len(ResetWrites(es)) |-> ResetWrites(es)[k].val]

\* The index in the trace of the last write of the reset line (0 when none).
LastResetWrite ==
    IF \E i \in 1..Len(trace) : trace[i].ev = "gpio" /\ trace[i].pin = "RESET"
       THEN CHOOSE i \in 1..Len(trace) :
               /\ trace[i].ev = "gpio" /\ trace[i].pin = "RESET"
               /\ \A j \in (i + 1)..Len(trace) :
                     ~(trace[j].ev = "gpio" /\ trace[j].pin = "RESET")
       ELSE 0

\* C20: in every init call the first transmit request is the software
\* reset (0x01), made after the reset line went high, low, high, after the
\* hardware reset returned, and after a delay of at least 5 time units
\* following the final release of the reset line.
C20_NoTransmitBeforeHardwareReset ==
    FirstTxIndex # 0 =>
        /\ trace[FirstTxIndex].fn = "ili9341_software_reset"
        /\ trace[FirstTxIndex].bytes = <<ILI9341_SOFTWARE_RESET_COMMAND>>
        /\ ResetLevels(SubSeq(trace, 1, FirstTxIndex - 1))
              = <<GPIO_PIN_SET, GPIO_PIN_RESET, GPIO_PIN_SET>>
        /\ HardwareResetEnd # 0
        /\ HardwareResetEnd < FirstTxIndex
        /\ LastResetWrite < HardwareResetEnd
        /\ pins.RESET = GPIO_PIN_SET
        /\ DelayBetween(LastResetWrite, FirstTxIndex) >= 5

C20_Witness ==
    /\ calls = 2
    /\ FirstTxIndex # 0
    /\ FirstTxIndex = Len(trace)
    /\ trace[FirstTxIndex].bytes = <<1>>
    /\ DelayBetween(LastResetWrite, FirstTxIndex) = 5

\* What function fn did in the current init call, in order.
EventsOf(fn) == SelectSeq(trace, LAMBDA e : e.fn = fn)

ShapeOf(fn) == [i \in 1..Len(EventsOf(fn)) |-> Did(EventsOf(fn)[i])]

PinWrite(pin, level) == [ev |-> "gpio", pin |-> pin, val |-> level, ms |-> 0]

Wait(ms) == [ev |-> "delay", pin |-> "-", val |-> "-", ms |-> ms]

Other(ev) == [ev |-> ev, pin |-> "-", val |-> "-", ms |-> 0]

\* The verdict that the spec gives for an answer of the transport.
VerdictFor(hal) ==
    CASE hal = HAL_OK -> ILI9341_EC_OK
      [] hal \in {HAL_BUSY, HAL_TIMEOUT} -> ILI9341_EC_NR
      [] hal = HAL_ERROR -> ILI9341_EC_ERR

\* A step without payload: one frame of one command byte, then wait ms time
\* units when ms > 0, then return.
CommandOnlyStep(ms) ==
    <<PinWrite("DC", GPIO_PIN_RESET), PinWrite("CS", GPIO_PIN_RESET), Other("tx"),
      PinWrite("CS", GPIO_PIN_SET)>>
    \o (IF ms > 0 THEN <<Wait(ms)>> ELSE <<>>) \o <<Other("return")>>

\* Function fn, as far as it has run, does the frame of op and the wait ms
\* of a step without payload, and returns the verdict of its one request.
RunsCommandOnlyStep(fn, op, ms) ==
    /\ IsPrefix(ShapeOf(fn), CommandOnlyStep(ms))
    /\ \A k \in 1..Len(TxOf(fn)) :
          /\ TxOf(fn)[k].bytes = <<op>>
          /\ TxOf(fn)[k].size = 1
          /\ TxOf(fn)[k].dc = GPIO_PIN_RESET
          /\ TxOf(fn)[k].cs = GPIO_PIN_RESET
    /\ Len(ReturnsOf(fn)) > 0 =>
          /\ ShapeOf(fn) = CommandOnlyStep(ms)
          /\ ReturnsOf(fn)[1].status = VerdictFor(TxOf(fn)[1].hal)
          /\ ReturnsOf(fn)[1].cs = GPIO_PIN_SET
    /\ (EventsOf(fn) # <<>> /\ FnAt(pc) # fn) => Len(ReturnsOf(fn)) = 1

\* C21: the software reset step makes exactly one transmit request, of the
\* one byte 0x01 in command state, de-asserts chip-select, waits 5 time
\* units and returns the translated verdict of that request; the
\* de-assertion and the wait happen whatever the verdict is.
C21_SoftwareResetStep ==
    RunsCommandOnlyStep("ili9341_software_reset", 1, 5)

C21_Witness ==
    /\ Len(ReturnsOf("ili9341_software_reset")) = 1
    /\ TxOf("ili9341_software_reset")[1].hal = HAL_BUSY
    /\ ReturnsOf("ili9341_software_reset")[1].status = ILI9341_EC_NR
    /\ ShapeOf("ili9341_software_reset")[5] = Wait(5)

\* C22: the Sleep-Out step transmits the single byte 0x11 without payload
\* and waits 5 time units after de-asserting chip-select, whatever the
\* verdict; the Display-On step transmits the single byte 0x29 without
\* payload and without wait; neither step writes the data/command line high.
C22_SleepOutAndDisplayOnSteps ==
    /\ RunsCommandOnlyStep("ili9341_exit_sleep_mode", 17, 5)
    /\ RunsCommandOnlyStep("ili9341_turn_display_on", 41, 0)
    /\ \A i \in 1..Len(trace) :
          trace[i].fn \in {"ili9341_exit_sleep_mode", "ili9341_turn_display_on"}
             => ~IsPinWrite(trace[i], "DC", GPIO_PIN_SET)

C22_Witness ==
    /\ Len(ReturnsOf("ili9341_exit_sleep_mode")) = 1
    /\ Len(ReturnsOf("ili9341_turn_display_on")) = 1
    /\ TxOf("ili9341_turn_display_on")[1].hal = HAL_ERROR
    /\ ShapeOf("ili9341_exit_sleep_mode")[5] = Wait(5)

\* The requests of fn so far: the bytes handed over and the level of the
\* data/command line, in order.
HandedBy(fn) ==
    [k \in 1..Len(TxOf(fn)) |-> [bytes |-> TxOf(fn)[k].bytes, dc |-> TxOf(fn)[k].dc]]

\* A frame of opcode op followed by the bytes payload.
FrameOf(op, payload) ==
    <<[bytes |-> <<op>>, dc |-> GPIO_PIN_RESET], [bytes |-> payload, dc |-> GPIO_PIN_SET]>>

\* Function fn has returned ILI9341_EC_OK.
ReturnedOk(fn) ==
    Len(ReturnsOf(fn)) = 1 /\ ReturnsOf(fn)[1].status = ILI9341_EC_OK

\* C23: with a transport that answers HAL_OK to every request, the payloads
\* handed over in data state are bit-exact: 0xC0 is followed by the one byte
\* 0x23, 0xC5 by the two bytes 0x3E then 0x28, and 0xC7 by the one byte 0x86.
C23_PayloadsBitExact ==
    TransportAlwaysOk =>
        /\ IsPrefix(HandedBy("ili9341_configure_power_control_1"), FrameOf(192, <<35>>))
        /\ IsPrefix(HandedBy("ili9341_configure_vcom_control_1"), FrameOf(197, <<62, 40>>))
        /\ IsPrefix(HandedBy("ili9341_configure_vcom_control_2"), FrameOf(199, <<134>>))
        /\ ReturnedOk("ili9341_configure_power_control_1") =>
              HandedBy("ili9341_configure_power_control_1") = FrameOf(192, <<35>>)
        /\ ReturnedOk("ili9341_configure_vcom_control_1") =>
              HandedBy("ili9341_configure_vcom_control_1") = FrameOf(197, <<62, 40>>)
        /\ ReturnedOk("ili9341_configure_vcom_control_2") =>
              HandedBy("ili9341_configure_vcom_control_2") = FrameOf(199, <<134>>)

C23_Witness ==
    /\ TransportAlwaysOk
    /\ ReturnedOk("ili9341_configure_vcom_control_2")
    /\ HandedBy("ili9341_configure_power_control_1") = FrameOf(192, <<35>>)
    /\ HandedBy("ili9341_configure_vcom_control_1") = FrameOf(197, <<62, 40>>)
    /\ HandedBy("ili9341_configure_vcom_control_2") = FrameOf(199, <<134>>)

\* The stores that function fn made into its payload buffer.
StoresOf(fn) == SelectSeq(trace, LAMBDA e : e.ev = "store" /\ e.fn = fn)

StoredValues(fn) == [k \in 1..Len(StoresOf(fn)) |-> StoresOf(fn)[k].value]

\* C24: the Display Function Control step hands over a payload as long as
\* the number of bytes it prepared: every byte it wrote into its payload
\* buffer (0x08, 0x82, 0x27) is part of the transmit request.
C24_DisplayFunctionControlPayload ==
    \A k \in 1..Len(DataTxOf("ili9341_configure_display_function_control")) :
        LET e == DataTxOf("ili9341_configure_display_function_control")[k] IN
           /\ e.size = Len(StoresOf("ili9341_configure_display_function_control"))
           /\ e.bytes = StoredValues("ili9341_configure_display_function_control")

\* C25: every store of a step into its payload buffer is at an index inside
\* the buffer: for a buffer declared with N elements only the indices
\* 0..N-1 are written.
C25_StoresInsideBuffer ==
    \A i \in 1..Len(trace) :
        trace[i].ev = "store" => trace[i].index \in 0..(trace[i].declared - 1)

\* The steps that have a payload.
PayloadSteps ==
    {"ili9341_configure_power_control_1", "ili9341_configure_vcom_control_1",
     "ili9341_configure_vcom_control_2", "ili9341_configure_memory_access_control",
     "ili9341_configure_pixel_format", "ili9341_configure_display_function_control"}

\* What fn did on the pins and the transport, without its stores into locals.
BusShapeOf(fn) ==
    SelectSeq(ShapeOf(fn), LAMBDA d : d.ev # "store")

\* The frame of a step whose command request failed.
FailedCommandFrame ==
    <<PinWrite("DC", GPIO_PIN_RESET), PinWrite("CS", GPIO_PIN_RESET), Other("tx"),
      PinWrite("CS", GPIO_PIN_SET), Other("return")>>

\* The frame of a step whose command request was accepted.
CommandAndPayloadFrame ==
    <<PinWrite("DC", GPIO_PIN_RESET), PinWrite("CS", GPIO_PIN_RESET), Other("tx"),
      PinWrite("DC", GPIO_PIN_SET), Other("tx"), PinWrite("CS", GPIO_PIN_SET),
      Other("return")>>

CommandFailed(fn) == Len(TxOf(fn)) > 0 /\ TxOf(fn)[1].hal # HAL_OK

CommandAccepted(fn) == Len(TxOf(fn)) > 0 /\ TxOf(fn)[1].hal = HAL_OK

\* C26: in every step that has a payload, a command request with a verdict
\* that is not OK is the only request of the step: the step does not write
\* the data/command line high and prepares no payload, it de-asserts
\* chip-select and returns that verdict.
C26_FailedCommandEndsStep ==
    \A fn \in PayloadSteps :
        CommandFailed(fn) =>
            /\ Len(TxOf(fn)) = 1
            /\ TxOf(fn)[1].dc = GPIO_PIN_RESET
            /\ IsPrefix(ShapeOf(fn), FailedCommandFrame)
            /\ FnAt(pc) # fn =>
                  /\ ShapeOf(fn) = FailedCommandFrame
                  /\ ReturnsOf(fn)[1].status = VerdictFor(TxOf(fn)[1].hal)
                  /\ ReturnsOf(fn)[1].status # ILI9341_EC_OK
                  /\ ReturnsOf(fn)[1].cs = GPIO_PIN_SET

C26_Witness ==
    /\ CommandFailed("ili9341_configure_pixel_format")
    /\ TxOf("ili9341_configure_pixel_format")[1].hal = HAL_BUSY
    /\ ShapeOf("ili9341_configure_pixel_format") = FailedCommandFrame
    /\ InitReturned

\* C27: in every step that has a payload, after a command request accepted
\* with OK the step makes exactly one more request, for the payload, in
\* data state and with chip-select still low from the same assertion, and
\* the verdict of the step is the translated result of the payload request.
C27_AcceptedCommandThenPayload ==
    \A fn \in PayloadSteps :
        CommandAccepted(fn) =>
            /\ Len(TxOf(fn)) <= 2
            /\ IsPrefix(BusShapeOf(fn), CommandAndPayloadFrame)
            /\ Len(TxOf(fn)) = 2 =>
                  /\ TxOf(fn)[2].dc = GPIO_PIN_SET
                  /\ TxOf(fn)[2].cs = GPIO_PIN_RESET
                  /\ TxOf(fn)[2].size = DeclaredSize(fn, TxOf(fn)[2].buf)
            /\ FnAt(pc) # fn =>
                  /\ BusShapeOf(fn) = CommandAndPayloadFrame
                  /\ ReturnsOf(fn)[1].status = VerdictFor(TxOf(fn)[2].hal)

C27_Witness ==
    /\ CommandAccepted("ili9341_configure_vcom_control_1")
    /\ Len(ReturnsOf("ili9341_configure_vcom_control_1")) = 1
    /\ TxOf("ili9341_configure_vcom_control_1")[2].hal = HAL_TIMEOUT
    /\ ReturnsOf("ili9341_configure_vcom_control_1")[1].status = ILI9341_EC_NR

\* C28: with the transport reading the caller's buffer while it sends, the
\* buffer handed to a request keeps its content until the transfer has
\* completed, so that the byte sent as the command of Power Control 1 is
\* 0xC0 and the byte sent as the command of VCOM Control 2 is 0xC7.
C28_BufferKeptWhileSending ==
    (/\ wire.sent
     /\ wire.dcAtRequest = GPIO_PIN_RESET
     /\ wire.handed \in {ILI9341_POWER_CONTROL_1_COMMAND, ILI9341_VCOM_CONTROL_2_COMMAND})
    => wire.byte = wire.handed

\* The lines of the calls of ili9341_dma_spi_tx.
RequestLines == {482, 498, 507, 522, 532, 547, 556, 571, 589, 610, 622, 637, 651, 667, 684}

\* C29: when the transport finishes every transfer it accepted and every
\* delay returns, every call of init_ili9341_module returns, in DisplayOn
\* (ILI9341_EC_OK after the ten states) or in Failed (the verdict of a
\* failed step); the driver waits without a bound only in the poll of the
\* transfer-idle signal before a request, while a transfer is in progress.
C29_InitReturns ==
    /\ [](InitReturned =>
             \/ InitStatus = ILI9341_EC_OK /\ StatesPassed = TenStates /\ FirstFailure = 0
             \/ InitStatus # ILI9341_EC_OK /\ FirstFailure # 0)
    /\ []((pc # Idle /\ ~ENABLED Driver) => (pc \in RequestLines /\ dma.sent < dma.size))
    /\ (pc # Idle) ~> (pc = Idle)

\* The driver waited in the poll and init returned afterwards.
C29_Witness ==
    /\ InitReturned
    /\ calls = 2
    /\ InitStatus = ILI9341_EC_OK
    /\ wire.sent
    /\ wire.handed = ILI9341_SLEEP_OUT_COMMAND

\* The state belongs to the latest call of init_ili9341_module: the call is
\* running, or it has returned and the application has called nothing since.
InLatestInitCall ==
    \/ pc # Idle
    \/ InitReturned /\ result.fn = "init_ili9341_module"

\* The Pixel Format step of the latest call has run its first statement.
PixelFormatEntered ==
    \/ FnAt(pc) = "ili9341_configure_pixel_format" /\ pc # 604
    \/ EventsOf("ili9341_configure_pixel_format") # <<>>

\* C30: the Pixel Format step sets the mode to 16-bit and the fill dispatch
\* to the 16-bit routine as its first statement, before any pin write or
\* transmit request of the step, so both hold from then on in that call,
\* whatever the step's verdict; as long as a call has not entered the step
\* (also when it has returned with the failure of an earlier step) the mode
\* and the fill dispatch are the ones the call started with.
C30_PixelFormatSetsModeFirst ==
    /\ pc = 604 => EventsOf("ili9341_configure_pixel_format") = <<>>
    /\ (InLatestInitCall /\ PixelFormatEntered) =>
          /\ ili9341_bpp_type = ILI9341_BPP_16
          /\ p_ili9341_fill_screen = FillRoutineOf(ILI9341_BPP_16)
    /\ (InLatestInitCall /\ ~PixelFormatEntered) =>
          /\ ili9341_bpp_type = atCall.bpp
          /\ p_ili9341_fill_screen = atCall.fill

\* A call that began in 18-bit mode has returned the failure of the Pixel
\* Format step's command request, and the mode is 16-bit.
C30_Witness ==
    /\ InitReturned
    /\ result.fn = "init_ili9341_module"
    /\ InitStatus # ILI9341_EC_OK
    /\ atCall = [bpp |-> ILI9341_BPP_18, fill |-> FillRoutineOf(ILI9341_BPP_18)]
    /\ Len(TxOf("ili9341_configure_pixel_format")) = 1
    /\ TxOf("ili9341_configure_pixel_format")[1].hal # HAL_OK
    /\ ili9341_bpp_type = ILI9341_BPP_16
    /\ p_ili9341_fill_screen = FillRoutineOf(ILI9341_BPP_16)

\* C31: once init_ili9341_module has returned, with any verdict, and after
\* any further calls of set_ili9341_bpp_type, the fill dispatch is set and
\* is the routine of the current Pixel Format Mode, so that
\* ili9341_fill_screen (line 713) never calls through an unset dispatch.
C31_FillDispatchSetAfterInit ==
    (calls > 0 /\ pc = Idle) =>
        /\ p_ili9341_fill_screen # "NULL"
        /\ p_ili9341_fill_screen = FillRoutineOf(ili9341_bpp_type)

\* The Pixel Format Mode that a Pixel Format payload byte asks the controller
\* for: its low three bits are the MCU interface format, 5 for 16 and 6 for
\* 18 bits per pixel.
ModeOfPixelFormat(byte) == IF byte % 8 = 6 THEN ILI9341_BPP_18 ELSE ILI9341_BPP_16

\* In history t a Pixel Format frame (0x3A and its payload) was accepted:
\* the step returned ILI9341_EC_OK.
PixelFormatAccepted(t) ==
    \E i \in 1..Len(t) : /\ t[i].ev = "return"
                         /\ t[i].fn = "ili9341_configure_pixel_format"
                         /\ t[i].status = ILI9341_EC_OK

\* C32: the Pixel Format Mode equals the pixel format most recently sent to
\* the controller in a Pixel Format frame (0x3A) whose transmits were
\* accepted with OK: the mode changes only in the step by which such a frame
\* is accepted, to the format of that frame, never without a frame and
\* never when the frame's verdict is not OK.
C32_ModeIsLastPixelFormatSent ==
    [][ili9341_bpp_type' # ili9341_bpp_type =>
          /\ ~PixelFormatAccepted(trace)
          /\ PixelFormatAccepted(trace')
          /\ ili9341_bpp_type'
                = ModeOfPixelFormat(DataTxOf("ili9341_configure_pixel_format")[1].bytes[1])]_vars

\* The index in the trace of the first write of the reset line (0 when none).
FirstResetWrite ==
    IF \E i \in 1..Len(trace) : trace[i].ev = "gpio" /\ trace[i].pin = "RESET"
       THEN CHOOSE i \in 1..Len(trace) :
               /\ trace[i].ev = "gpio" /\ trace[i].pin = "RESET"
               /\ \A j \in 1..(i - 1) :
                     ~(trace[j].ev = "gpio" /\ trace[j].pin = "RESET")
       ELSE 0

\* C33: init_ili9341_module drives chip-select high before its first write
\* of the reset line, and chip-select is high at the call of the hardware
\* reset, at every statement of it and at its return, whatever level
\* chip-select had when init was called.
C33_ChipSelectReleasedBeforeReset ==
    /\ (pc = 372 \/ FnAt(pc) = "ili9341_hardware_reset") => pins.CS = GPIO_PIN_SET
    /\ \A i \in 1..Len(trace) :
          (trace[i].fn = "ili9341_hardware_reset" /\ trace[i].ev # "delay")
             => trace[i].cs = GPIO_PIN_SET
    /\ FirstResetWrite # 0 =>
          /\ trace[FirstResetWrite].fn = "ili9341_hardware_reset"
          /\ \E j \in 1..(FirstResetWrite - 1) :
                /\ IsPinWrite(trace[j], "CS", GPIO_PIN_SET)
                /\ trace[j].fn = "init_ili9341_module"
          /\ \A j \in 1..(FirstResetWrite - 1) :
                ~IsPinWrite(trace[j], "CS", GPIO_PIN_RESET)

\* A call that found chip-select asserted has finished the hardware reset.
C33_Witness ==
    /\ pc = 375
    /\ HardwareResetEnd = Len(trace)
    /\ IsPinWrite(trace[1], "CS", GPIO_PIN_SET)
    /\ trace[1].cs = GPIO_PIN_RESET
    /\ ResetLevels(trace) = <<GPIO_PIN_SET, GPIO_PIN_RESET, GPIO_PIN_SET>>
    /\ pins.CS = GPIO_PIN_SET

\* C34: once the hardware reset procedure has returned, the reset line is
\* not written again in that call: its three writes (high, low, high) are
\* all before the return of the procedure, the line is high in every later
\* state up to and after the return of init, with any verdict, and no
\* statement outside ili9341_hardware_reset changes its level.
C34_ResetLineLeftAlone ==
    /\ [](HardwareResetEnd # 0 =>
             /\ pins.RESET = GPIO_PIN_SET
             /\ LastResetWrite < HardwareResetEnd
             /\ ResetLevels(trace) = <<GPIO_PIN_SET, GPIO_PIN_RESET, GPIO_PIN_SET>>)
    /\ [][pins'.RESET # pins.RESET => FnAt(pc) = "ili9341_hardware_reset"]_vars

\* init has returned ILI9341_EC_OK after all its steps, with the reset line
\* high and written three times.
C34_Witness ==
    /\ InitReturned
    /\ InitStatus = ILI9341_EC_OK
    /\ CommandTxIndex(ILI9341_DISPLAY_ON_COMMAND) # 0
    /\ Len(ResetWrites(trace)) = 3
    /\ LastResetWrite < HardwareResetEnd
    /\ pins.RESET = GPIO_PIN_SET

====
